---- MODULE Spec2Model ----
(***************************************************************************)
(* The command parser of the FIX REPL (fix_repl/command_parser.rs) and     *)
(* the shell that reads, parses and dispatches (fix_repl/command_exec.rs). *)
(*                                                                         *)
(* A text is a sequence of characters, each character a one-character      *)
(* string; "NUL" stands for the character U+0000.  The parser is computed  *)
(* character by character, as the Rust code computes it: trim, the         *)
(* keyword match, the "send_to " prefix test, split_whitespace, split('|'),*)
(* splitn(2, '='), the integer parse of the tag, Message::set_field and    *)
(* SessionId::try_new.                                                     *)
(***************************************************************************)
EXTENDS Integers, Sequences, FiniteSets, TLC

VARIABLES
    source,        \* the text given to from_str when the parser runs alone
    pc,            \* where the parser, or the loop of the shell, stands
    outcome,       \* the result of the last parse
    stdin,         \* what the reads of standard input deliver, one per read
    pos,           \* how many of them have been delivered
    last_command,  \* FixShell::last_command, the reused buffer
    todo,          \* operations the command in execution has still to call
    in_flight,     \* the operation called and not yet returned, "" if none
    results,       \* what the operations of the command in execution returned
    exec_log,      \* the commands given to exec_command, in order
    handler_log,   \* the operations invoked, in order, each with its
                   \* arguments and the number of the line it was invoked for
    out,           \* the lines written to standard output, in order
    flushed,       \* how many of them have left the buffer of standard output
    reads,         \* the reads of standard input attempted, each with what
                   \* standard output held and had flushed when it started
    err,           \* the lines written to standard error, in order
    hist,          \* every text parsed by the shell, with its result
    exit,          \* why the loop ended: "quit", "eof", "io", "panic"
    argv,          \* the arguments of the program, after its name
    exit_code,     \* the exit code of the process, -1 while it runs
    lifecycle,     \* the calls of server_loop on the connection handler,
                   \* each with what it returned
    message_index, \* MyApplication::message_index, the AtomicU32
    base,          \* how many increments it had taken when the run starts
    th,            \* the thread of each callback in progress: where it
                   \* stands, its callback, the value it loaded
    app_out,       \* the lines print_callback has written, in order
    demo,          \* the acceptor demo that runs, "" when none does
    stdin_buf,     \* its one-byte buffer, stdin_buf[0]
    failed_reads   \* how many of its reads have failed, counted up to a bound

shellVars ==
    <<stdin, pos, last_command, todo, in_flight, results, exec_log,
      handler_log, out, flushed, reads, err, hist, exit>>

mainVars == <<argv, exit_code, lifecycle>>

\* What the parser and the shell leave alone.
appVars == <<message_index, base, th, app_out>>

\* What the program of the shell leaves alone.
demoVars == <<demo, stdin_buf, failed_reads>>

sideVars == <<appVars, demoVars>>

restVars == <<mainVars, sideVars>>

vars == <<source, pc, outcome, shellVars, restVars>>

----------------------------------------------------------------------------
(* Characters and the std::str operations the parser calls.                *)

\* char::is_whitespace, restricted to the characters of the model's alphabet.
IsWhitespace(c) == c \in {" ", "\t", "\n", "\r"}

\* The character the engine's C strings cannot carry.
NUL == "NUL"

\* str::find: the index of the first character of s that is in set C, 0 if none.
IndexOf(s, C) ==
    IF \E i \in 1..Len(s) : s[i] \in C
    THEN CHOOSE i \in 1..Len(s) : s[i] \in C /\ \A j \in 1..(i - 1) : s[j] \notin C
    ELSE 0

RECURSIVE trim_start(_)
trim_start(s) ==
    IF s = <<>> THEN s
    ELSE IF IsWhitespace(Head(s)) THEN trim_start(Tail(s))
    ELSE s

RECURSIVE trim_end(_)
trim_end(s) ==
    IF s = <<>> THEN s
    ELSE IF IsWhitespace(s[Len(s)]) THEN trim_end(SubSeq(s, 1, Len(s) - 1))
    ELSE s

\* A trim that forgets the end of the line (the line terminator stays).
trim_keeps_end(s) == trim_start(s)

\* str::trim: leading and trailing whitespace removed.
trim(s) == trim_end(trim_start(s))

\* str::starts_with
starts_with(s, prefix) ==
    /\ Len(s) >= Len(prefix)
    /\ SubSeq(s, 1, Len(prefix)) = prefix

\* str::split_whitespace: the maximal runs of non-whitespace characters.
RECURSIVE split_whitespace(_)
split_whitespace(s) ==
    LET t == trim_start(s)
        i == IndexOf(t, {" ", "\t", "\n", "\r"})
    IN  IF t = <<>> THEN <<>>
        ELSE IF i = 0 THEN <<t>>
        ELSE <<SubSeq(t, 1, i - 1)>> \o split_whitespace(SubSeq(t, i + 1, Len(t)))

\* str::split(ch): every piece between two occurrences of ch, empty ones too.
RECURSIVE split(_, _)
split(s, ch) ==
    LET i == IndexOf(s, {ch})
    IN  IF i = 0 THEN <<s>>
        ELSE <<SubSeq(s, 1, i - 1)>> \o split(SubSeq(s, i + 1, Len(s)), ch)

\* Cut at every occurrence of ch (split instead of splitn).
splitn_every(s, ch) == split(s, ch)

\* str::splitn(2, ch): cut at the first occurrence of ch only.
splitn(s, ch) ==
    LET i == IndexOf(s, {ch})
    IN  IF i = 0 THEN <<s>>
        ELSE <<SubSeq(s, 1, i - 1), SubSeq(s, i + 1, Len(s))>>

----------------------------------------------------------------------------
(* str::parse::<i32>: the tag of Message::set_field is an i32.             *)

I32Max == 2147483647

IsDigit(c) == c \in {"0", "1", "2", "3", "4", "5", "6", "7", "8", "9"}

DigitVal(c) ==
    CASE c = "0" -> 0 [] c = "1" -> 1 [] c = "2" -> 2 [] c = "3" -> 3
      [] c = "4" -> 4 [] c = "5" -> 5 [] c = "6" -> 6 [] c = "7" -> 7
      [] c = "8" -> 8 [] c = "9" -> 9

ParseErr == [ok |-> FALSE, val |-> 0]

\* Positive accumulation acc * 10 + d with checked_mul / checked_add.
RECURSIVE ParsePos(_, _)
ParsePos(digits, acc) ==
    IF digits = <<>> THEN [ok |-> TRUE, val |-> acc]
    ELSE IF ~IsDigit(Head(digits)) THEN ParseErr
    ELSE LET d == DigitVal(Head(digits))
         IN  IF acc > (I32Max - d) \div 10 THEN ParseErr
             ELSE ParsePos(Tail(digits), acc * 10 + d)

\* Negative accumulation acc * 10 - d with checked_mul / checked_sub.
RECURSIVE ParseNeg(_, _)
ParseNeg(digits, acc) ==
    IF digits = <<>> THEN [ok |-> TRUE, val |-> acc]
    ELSE IF ~IsDigit(Head(digits)) THEN ParseErr
    ELSE LET d == DigitVal(Head(digits))
             q == (I32Max - d) \div 10
             r == (I32Max - d) % 10
             lim == q + (IF r = 9 THEN 1 ELSE 0)
         IN  IF (-acc) > lim THEN ParseErr
             ELSE ParseNeg(Tail(digits), acc * 10 - d)

parse_i32(s) ==
    IF s = <<>> THEN ParseErr
    ELSE IF Head(s) \in {"+", "-"} /\ Len(s) = 1 THEN ParseErr
    ELSE IF Head(s) = "-" THEN ParseNeg(Tail(s), 0)
    ELSE IF Head(s) = "+" THEN ParsePos(Tail(s), 0)
    ELSE ParsePos(s, 0)

----------------------------------------------------------------------------
(* Results of parsing: Result<ShellCommand, BadCommand>, or a panic.       *)

NoOutcome ==
    [kind |-> "none", text |-> <<>>, current |-> 0, expected |-> 0,
     reason |-> "", msg |-> <<>>, session_id |-> <<>>, set_field_calls |-> <<>>]

Command(kind) == [NoOutcome EXCEPT !.kind = kind]

\* Only the first word of the text is kept.
UnknownFirstWord(cmd) ==
    [NoOutcome EXCEPT !.kind = "Unknown", !.text = Head(split_whitespace(cmd))]

Unknown(cmd) == [NoOutcome EXCEPT !.kind = "Unknown", !.text = cmd]

\* current counted from one instead of from zero.
InvalidArgumentCountOneBased(current) ==
    [NoOutcome EXCEPT !.kind = "InvalidArgumentCount",
                      !.current = current + 1, !.expected = 3]

InvalidArgumentCount(current) ==
    [NoOutcome EXCEPT !.kind = "InvalidArgumentCount",
                      !.current = current, !.expected = 3]

InvalidArgument(reason, calls) ==
    [NoOutcome EXCEPT !.kind = "InvalidArgument", !.reason = reason,
                      !.set_field_calls = calls]

Panic(reason, calls) ==
    [NoOutcome EXCEPT !.kind = "panic", !.reason = reason,
                      !.set_field_calls = calls]

SendMessage(msg, session_id, calls) ==
    [NoOutcome EXCEPT !.kind = "SendMessage", !.msg = msg,
                      !.session_id = session_id, !.set_field_calls = calls]

----------------------------------------------------------------------------
(* The quickfix engine, as far as the parser calls it.                     *)

\* A string reaches the engine as a C string: one that holds NUL is refused.
EngineAccepts(s) == \A i \in 1..Len(s) : s[i] # NUL

\* Message::set_field: the field map holds one value per tag, the last set.
set_field(msg, tag, value) ==
    [t \in DOMAIN msg \cup {tag} |-> IF t = tag THEN value ELSE msg[t]]

FIX44 == <<"F", "I", "X", ".", "4", ".", "4">>

\* SessionId::try_new
SessionId_try_new(begin_string, sender, target, qualifier) ==
    IF EngineAccepts(sender) /\ EngineAccepts(target)
    THEN [ok |-> TRUE, id |-> <<begin_string, sender, target, qualifier>>]
    ELSE [ok |-> FALSE, id |-> <<>>]

----------------------------------------------------------------------------
(* parse_send_to                                                           *)

\* Rejects a line that holds more than the three arguments.
NextArgsStrict(tokens) ==
    IF Len(tokens) < 2 THEN InvalidArgumentCount(0)
    ELSE IF Len(tokens) < 3 THEN InvalidArgumentCount(1)
    ELSE IF Len(tokens) < 4 THEN InvalidArgumentCount(2)
    ELSE IF Len(tokens) > 4 THEN InvalidArgumentCount(Len(tokens) - 1)
    ELSE [kind |-> "Ok", text_msg |-> tokens[2],
          text_sender |-> tokens[3], text_target |-> tokens[4]]

\* Sender and target taken in the wrong order.
NextArgsSwapped(tokens) ==
    IF Len(tokens) < 2 THEN InvalidArgumentCount(0)
    ELSE IF Len(tokens) < 3 THEN InvalidArgumentCount(1)
    ELSE IF Len(tokens) < 4 THEN InvalidArgumentCount(2)
    ELSE [kind |-> "Ok", text_msg |-> tokens[2],
          text_sender |-> tokens[4], text_target |-> tokens[3]]

\* The three tokens.next() after the skipped "send_to": the first missing
\* argument ends the parse; tokens after the target are never asked for.
NextArgs(tokens) ==
    IF Len(tokens) < 2 THEN InvalidArgumentCount(0)
    ELSE IF Len(tokens) < 3 THEN InvalidArgumentCount(1)
    ELSE IF Len(tokens) < 4 THEN InvalidArgumentCount(2)
    ELSE [kind |-> "Ok", text_msg |-> tokens[2],
          text_sender |-> tokens[3], text_target |-> tokens[4]]

\* A missing '=' read as an empty value.
ParseFieldLenient(field) ==
    LET field_tokens == splitn(field, "=")
        tag == parse_i32(field_tokens[1])
    IN  IF ~tag.ok
        THEN [kind |-> "InvalidArgument", reason |-> "Invalid tag number",
              tag |-> 0, value |-> <<>>]
        ELSE [kind |-> "Ok", reason |-> "", tag |-> tag.val,
              value |-> IF Len(field_tokens) < 2 THEN <<>> ELSE field_tokens[2]]

\* One pass of the loop over the field specs, up to the call of set_field:
\* the tag and the value of one field spec.  splitn always yields a first
\* piece, so "Invalid tag" cannot happen.
ParseField(field) ==
    LET field_tokens == splitn(field, "=")
        tag == parse_i32(field_tokens[1])
    IN  IF ~tag.ok
        THEN [kind |-> "InvalidArgument", reason |-> "Invalid tag number",
              tag |-> 0, value |-> <<>>]
        ELSE IF Len(field_tokens) < 2
        THEN [kind |-> "InvalidArgument", reason |-> "Invalid value",
              tag |-> 0, value |-> <<>>]
        ELSE [kind |-> "Ok", reason |-> "", tag |-> tag.val,
              value |-> field_tokens[2]]

\* A loop over the field specs that keeps the first value given for a tag.
RECURSIVE ParseFieldsFirstWins(_, _, _)
ParseFieldsFirstWins(fields, msg, calls) ==
    IF fields = <<>> THEN [kind |-> "Ok", reason |-> "", msg |-> msg, calls |-> calls]
    ELSE LET f == ParseField(Head(fields))
             called == Append(calls, <<f.tag, f.value>>)
         IN  IF f.kind # "Ok"
             THEN [kind |-> "InvalidArgument", reason |-> f.reason,
                   msg |-> msg, calls |-> calls]
             ELSE IF ~EngineAccepts(f.value)
             THEN [kind |-> "panic", reason |-> "Fail to set msg tag=value",
                   msg |-> msg, calls |-> called]
             ELSE IF f.tag \in DOMAIN msg
             THEN ParseFieldsFirstWins(Tail(fields), msg, calls)
             ELSE ParseFieldsFirstWins(Tail(fields), set_field(msg, f.tag, f.value),
                                       called)

\* The loop over the field specs, left to right; calls is the sequence of
\* set_field calls made so far.
RECURSIVE ParseFields(_, _, _)
ParseFields(fields, msg, calls) ==
    IF fields = <<>> THEN [kind |-> "Ok", reason |-> "", msg |-> msg, calls |-> calls]
    ELSE LET f == ParseField(Head(fields))
             called == Append(calls, <<f.tag, f.value>>)
         IN  IF f.kind # "Ok"
             THEN [kind |-> "InvalidArgument", reason |-> f.reason,
                   msg |-> msg, calls |-> calls]
             ELSE IF ~EngineAccepts(f.value)
             THEN [kind |-> "panic", reason |-> "Fail to set msg tag=value",
                   msg |-> msg, calls |-> called]
             ELSE ParseFields(Tail(fields), set_field(msg, f.tag, f.value), called)

\* The failure surfaced as an error of the command, the shell going on.
SessionIdFailureRecovered(calls) == InvalidArgument("bad session id", calls)

\* SessionId::try_new(...).expect("Fail to allocate new session ID")
SessionIdFailure(calls) == Panic("Fail to allocate new session ID", calls)

\* A parser that builds the session identifier before it reads the fields.
parse_send_to_session_first(src) ==
    LET args == NextArgs(split_whitespace(src))
    IN  IF args.kind # "Ok" THEN args
        ELSE LET sid == SessionId_try_new(FIX44, args.text_sender,
                                          args.text_target, <<>>)
                 m == ParseFields(split(args.text_msg, "|"), <<>>, <<>>)
             IN  IF ~sid.ok THEN SessionIdFailure(<<>>)
                 ELSE IF m.kind = "InvalidArgument"
                 THEN InvalidArgument(m.reason, m.calls)
                 ELSE IF m.kind = "panic" THEN Panic(m.reason, m.calls)
                 ELSE SendMessage(m.msg, sid.id, m.calls)

parse_send_to(src) ==
    LET args == NextArgs(split_whitespace(src))
    IN  IF args.kind # "Ok" THEN args
        ELSE LET m == ParseFields(split(args.text_msg, "|"), <<>>, <<>>)
                 sid == SessionId_try_new(FIX44, args.text_sender,
                                          args.text_target, <<>>)
             IN  IF m.kind = "InvalidArgument" THEN InvalidArgument(m.reason, m.calls)
                 ELSE IF m.kind = "panic" THEN Panic(m.reason, m.calls)
                 ELSE IF ~sid.ok THEN SessionIdFailure(m.calls)
                 ELSE SendMessage(m.msg, sid.id, m.calls)

----------------------------------------------------------------------------
(* ShellCommand::from_str                                                  *)

\* The keyword table without the one-character synonyms.
MatchKeywordNoSynonym(cmd) ==
    CASE cmd = <<"q", "u", "i", "t">> -> "Quit"
      [] cmd = <<"h", "e", "l", "p">> -> "Help"
      [] cmd = <<"s", "t", "a", "r", "t">> -> "Start"
      [] cmd = <<"s", "t", "o", "p">> -> "Stop"
      [] cmd = <<"s", "t", "a", "t", "u", "s">> -> "Status"
      [] cmd = <<"b", "l", "o", "c", "k">> -> "Block"
      [] cmd = <<"p", "o", "l", "l">> -> "Poll"
      [] cmd = <<>> -> "NoOperation"
      [] OTHER -> "none"

\* The literal arms of the match: the variant of an exact keyword, "none"
\* when the text is no keyword.
MatchKeyword(cmd) ==
    CASE cmd = <<"q", "u", "i", "t">> \/ cmd = <<"q">> -> "Quit"
      [] cmd = <<"h", "e", "l", "p">> \/ cmd = <<"?">> -> "Help"
      [] cmd = <<"s", "t", "a", "r", "t">> -> "Start"
      [] cmd = <<"s", "t", "o", "p">> -> "Stop"
      [] cmd = <<"s", "t", "a", "t", "u", "s">> -> "Status"
      [] cmd = <<"b", "l", "o", "c", "k">> -> "Block"
      [] cmd = <<"p", "o", "l", "l">> -> "Poll"
      [] cmd = <<>> -> "NoOperation"
      [] OTHER -> "none"

\* A parser that counts its calls and knows "stop" on the first one only.
from_str_counting(src) ==
    LET cmd == trim(src)
    IN  IF hist # <<>> /\ cmd = <<"s", "t", "o", "p">> THEN Unknown(cmd)
        ELSE IF MatchKeyword(cmd) # "none" THEN Command(MatchKeyword(cmd))
        ELSE IF starts_with(cmd, <<"s", "e", "n", "d", "_", "t", "o", " ">>)
        THEN parse_send_to(cmd)
        ELSE Unknown(cmd)

from_str(src) ==
    LET cmd == trim(src)
    IN  IF MatchKeyword(cmd) # "none" THEN Command(MatchKeyword(cmd))
        ELSE IF starts_with(cmd, <<"s", "e", "n", "d", "_", "t", "o", " ">>)
        THEN parse_send_to(cmd)
        ELSE Unknown(cmd)

----------------------------------------------------------------------------
(* The input lines of the model.                                           *)

MaxFields == 2
MaxPad == 1

Keywords ==
    {<<"q", "u", "i", "t">>, <<"q">>, <<"h", "e", "l", "p">>, <<"?">>,
     <<"s", "t", "a", "r", "t">>, <<"s", "t", "o", "p">>,
     <<"s", "t", "a", "t", "u", "s">>, <<"b", "l", "o", "c", "k">>,
     <<"p", "o", "l", "l">>, <<>>}

OtherTexts ==
    {<<"f", "o", "o">>, <<"q", "u", " ", "i", "t">>, <<"Q", "u", "i", "t">>,
     <<"q", "u", "i", "t", " ", "x">>, <<"s", "e", "n", "d", "_", "t", "o", "x">>}

FieldPool ==
    {<<"3", "5", "=", "D">>, <<"5", "8", "=", "a", "=", "b">>, <<"5", "8", "=">>,
     <<"a", "b", "c", "=", "D">>, <<"-", "1", "=", "X">>, <<>>, <<"3", "5">>,
     <<"9", "9", "9", "9", "9", "9", "9", "9", "9", "9", "9", "=", "D">>}

CLIENT == <<"C", "L", "I", "E", "N", "T">>
EXCHANGE == <<"E", "X", "C", "H", "A", "N", "G", "E">>

IdPairs ==
    {<<CLIENT, EXCHANGE>>, <<<<"B", NUL>>, EXCHANGE>>,
     <<CLIENT, <<"B", NUL, "D">>>>}

ExtraTokens == {<<"X">>}

Separators ==
    {[first |-> <<" ">>, rest |-> <<" ">>],
     [first |-> <<" ">>, rest |-> <<"\t", " ">>],
     [first |-> <<"\t">>, rest |-> <<" ">>]}

RECURSIVE FieldSpecsOf(_)
FieldSpecsOf(k) ==
    IF k = 1 THEN FieldPool
    ELSE {s \o <<"|">> \o f : s \in FieldSpecsOf(k - 1), f \in FieldPool}

FieldSpecs == UNION {FieldSpecsOf(k) : k \in 1..MaxFields}

ArgLists ==
    {<<>>}
    \cup {<<m>> : m \in FieldSpecs}
    \cup {<<m, p[1]>> : m \in FieldSpecs, p \in IdPairs}
    \cup {<<m, p[1], p[2]>> : m \in FieldSpecs, p \in IdPairs}
    \cup {<<m, p[1], p[2], x>> : m \in FieldSpecs, p \in IdPairs, x \in ExtraTokens}

RECURSIVE Join(_, _)
Join(args, sep) ==
    IF args = <<>> THEN <<>>
    ELSE IF Len(args) = 1 THEN Head(args)
    ELSE Head(args) \o sep \o Join(Tail(args), sep)

SendToLines ==
    {<<"s", "e", "n", "d", "_", "t", "o">> \o sep.first \o Join(args, sep.rest) :
        args \in ArgLists, sep \in Separators}

\* The example of the help text and of the specification.
ExampleLines ==
    {<<"s", "e", "n", "d", "_", "t", "o", " ", "3", "5", "=", "D", "|",
       "5", "5", "=", "A", "A", "P", "L", "|", "5", "4", "=", "1", "|",
       "3", "8", "=", "1", "0", "0", " ", "C", "L", "I", "E", "N", "T", " ",
       "E", "X", "C", "H", "A", "N", "G", "E">>}

LeadPads == {[i \in 1..k |-> " "] : k \in 0..MaxPad}

TrailPads == {<<>>, <<"\n">>, <<" ", "\r", "\n">>}

Inputs ==
    {lead \o body \o trail :
        lead \in LeadPads,
        body \in Keywords \cup OtherTexts \cup SendToLines \cup ExampleLines,
        trail \in TrailPads}

----------------------------------------------------------------------------
(* The parser as a state machine: one line is given, then parsed.          *)

TypeOK ==
    /\ source \in Inputs
    /\ pc \in {"input", "parsed"}

\* The shell at rest: nothing read, nothing written, nothing called.
ShellIdle ==
    /\ pos = 0
    /\ last_command = <<>>
    /\ todo = <<>>
    /\ in_flight = ""
    /\ results = <<>>
    /\ exec_log = <<>>
    /\ handler_log = <<>>
    /\ out = <<>>
    /\ flushed = 0
    /\ reads = <<>>
    /\ err = <<>>
    /\ hist = <<>>
    /\ exit = ""

\* The program not started.
MainIdle ==
    /\ argv = <<>>
    /\ exit_code = -1
    /\ lifecycle = <<>>

\* The threads of the engine that may be inside a callback.
NumThreads == 2

Threads == 1..NumThreads

\* A value of the AtomicU32, as its two 16-bit halves.
U32(hi, lo) == [hi |-> hi, lo |-> lo]

Zero == U32(0, 0)

\* No value: the thread has made no increment in its callback.
NoValue == U32(-1, -1)

NoCallback ==
    [at |-> "idle", callback |-> "", msg_count |-> Zero, own |-> NoValue, seen |-> 0]

AppIdle ==
    /\ message_index = Zero
    /\ base = Zero
    /\ th = [t \in Threads |-> NoCallback]
    /\ app_out = <<>>

\* let mut stdin_buf = [0]
ZeroByte == "\\0"

DemoIdle ==
    /\ demo = ""
    /\ stdin_buf = ZeroByte
    /\ failed_reads = 0

SideIdle == AppIdle /\ DemoIdle

RestIdle == MainIdle /\ SideIdle

InitParse ==
    /\ source \in Inputs
    /\ pc = "input"
    /\ outcome = NoOutcome
    /\ stdin = <<>>
    /\ ShellIdle
    /\ RestIdle

\* self.last_command.parse::<ShellCommand>()
FromStr ==
    /\ pc = "input"
    /\ outcome' = from_str(source)
    /\ pc' = "parsed"
    /\ UNCHANGED <<source, shellVars, restVars>>

NextParse == FromStr

SpecParse == InitParse /\ [][NextParse]_vars

----------------------------------------------------------------------------
(* The shell (fix_repl/command_exec.rs): what standard input delivers.     *)

MaxLines == 2

\* Lines as typed, each ended by the line terminator when delivered.
ShellLines ==
    {<<"h", "e", "l", "p">>, <<"s", "t", "a", "t", "u", "s">>, <<>>,
     <<"q", "u", "i", "t">>, <<"q">>, <<"s", "t", "a", "r", "t">>,
     <<"s", "t", "o", "p">>, <<"b", "l", "o", "c", "k">>,
     <<"p", "o", "l", "l">>, <<"f", "o", "o">>,
     <<"s", "e", "n", "d", "_", "t", "o", " ", "3", "5", "=", "D", " ">>
         \o CLIENT \o <<" ">> \o EXCHANGE,
     <<"s", "e", "n", "d", "_", "t", "o", " ", "3", "5", "=", "D", " ">>
         \o CLIENT,
     <<"s", "e", "n", "d", "_", "t", "o", " ", "a", "b", "c", "=", "D", " ">>
         \o CLIENT \o <<" ">> \o EXCHANGE,
     <<"s", "e", "n", "d", "_", "t", "o", " ", "3", "5", "=", "D", " ",
       "B", NUL, " ">> \o EXCHANGE}

\* What a stream may end with when its last line has no terminator.
UnterminatedTails == {<<"s", "t", "a", "t", "u", "s">>, <<" ">>}

RECURSIVE LinesOf(_)
LinesOf(k) ==
    IF k = 0 THEN {<<>>}
    ELSE {Append(s, l \o <<"\n">>) : s \in LinesOf(k - 1), l \in ShellLines}

\* The example of the specification: help, status, a blank line, quit.
ExampleStreams ==
    {<<<<"h", "e", "l", "p", "\n">>, <<"s", "t", "a", "t", "u", "s", "\n">>,
       <<"\n">>, <<"q", "u", "i", "t", "\n">>>>}

Streams ==
    LET whole == UNION {LinesOf(k) : k \in 0..MaxLines}
    IN  whole
        \cup {Append(s, tl) : s \in whole, tl \in UnterminatedTails}
        \cup ExampleStreams

----------------------------------------------------------------------------
(* The shell: its steps.                                                   *)

\* A line of output: a fixed text and the values formatted into it.
Line(text, args) == [text |-> text, args |-> args]

\* A buffer that keeps what it held.
clear_forgotten(buf) == buf

\* String::clear
clear(buf) == <<>>

\* BufRead::read_line appends what it read to the buffer.
read_line(buf, data) == buf \o data

\* A test of the end of input that takes a blank line for it.
is_blank(buf) == trim(buf) = <<>>

\* String::is_empty
is_empty(buf) == buf = <<>>

\* A status that asks whether the connection is stopped and nothing else.
HandlerOpsStoppedOnly(kind) ==
    CASE kind = "Start" -> <<"start">>
      [] kind = "Stop" -> <<"stop">>
      [] kind = "Status" -> <<"is_stopped">>
      [] kind = "Block" -> <<"block">>
      [] kind = "Poll" -> <<"poll">>
      [] kind = "SendMessage" -> <<"send_to_target">>
      [] OTHER -> <<>>

\* The operations each arm of exec_command calls, in the order it calls them.
HandlerOps(kind) ==
    CASE kind = "Start" -> <<"start">>
      [] kind = "Stop" -> <<"stop">>
      [] kind = "Status" -> <<"is_logged_on", "is_stopped">>
      [] kind = "Block" -> <<"block">>
      [] kind = "Poll" -> <<"poll">>
      [] kind = "SendMessage" -> <<"send_to_target">>
      [] OTHER -> <<>>

\* What an operation may return: a flag for the two questions, a Result
\* for the others.
OpResults(op) ==
    CASE op \in {"is_logged_on", "is_stopped"} -> {"true", "false"}
      [] op = "poll" -> {"Ok(true)", "Ok(false)", "Err"}
      [] OTHER -> {"Ok", "Err"}

\* What an arm prints before it calls anything.
ExecEcho(cmd) ==
    CASE cmd.kind = "Help" -> <<Line("help", <<>>)>>
      [] cmd.kind = "SendMessage" ->
            <<Line("Sending", <<cmd.msg, cmd.session_id>>)>>
      [] OTHER -> <<>>

\* What an arm prints once its operations have returned.
ExecReport(kind, res) ==
    CASE kind \in {"Start", "Stop", "Poll"} -> <<Line("RESULT", res)>>
      [] kind = "Status" -> <<Line("Connection handler status", res)>>
      [] kind = "Block" ->
            <<Line("RESULT", res), Line("(Blocked until message received)", <<>>)>>
      [] kind = "SendMessage" -> <<Line("SEND_RESULT", res)>>
      [] OTHER -> <<>>

\* A shell that unwraps the result of an operation.
AfterExecUnwrap(res) ==
    IF \E i \in 1..Len(res) : res[i] = "Err" THEN "aborted" ELSE "prompt"

\* exec_command returns to the loop whatever the operations returned.
AfterExec(res) == "prompt"

\* A shell that gives quit to exec_command as it does any command.
AfterParseOkNoQuit(kind) == "exec"

\* The Ok arms of the loop: quit leaves it, any other command is executed.
AfterParseOk(kind) == IF kind = "Quit" THEN "done" ELSE "exec"

\* A shell that leaves its loop on a line it cannot parse.
AfterParseErrorBreak == "done"

\* The Err arm of the loop prints and goes on.
AfterParseError == "prompt"

\* A shell that leaves the prompt in the buffer of standard output.
flush_skipped(written, visible) == visible

\* stdout.flush(): all that was written has left the buffer.
flush(written, visible) == written

\* println! on standard output, which is line-buffered: a line that ends
\* with a newline takes the buffer with it.
println(written, visible, lines) ==
    IF lines = <<>> THEN visible ELSE written + Len(lines)

ShellTypeOK ==
    /\ stdin \in Streams
    /\ pos \in 0..Len(stdin)
    /\ pc \in {"prompt", "read", "parse", "exec", "call", "done", "aborted"}
    /\ exit \in {"", "quit", "eof", "io", "panic"}
    /\ in_flight \in {"", "start", "stop", "is_logged_on", "is_stopped",
                      "block", "poll", "send_to_target"}

InitRepl ==
    /\ stdin \in Streams
    /\ source = <<>>
    /\ pc = "prompt"
    /\ outcome = NoOutcome
    /\ pos = 0
    /\ last_command = <<>>
    /\ todo = <<>>
    /\ in_flight = ""
    /\ results = <<>>
    /\ exec_log = <<>>
    /\ handler_log = <<>>
    /\ out = <<Line("welcome", <<>>)>>
    /\ flushed = 1
    /\ reads = <<>>
    /\ err = <<>>
    /\ hist = <<>>
    /\ exit = ""
    /\ RestIdle

\* read_user_input up to the read: the prompt is written and flushed, then
\* the buffer is cleared; a failed write, or a failed flush of the prompt
\* written, ends the process.
Prompt ==
    /\ pc = "prompt"
    /\ \/ /\ out' = Append(out, Line("FIX> ", <<>>))
          /\ flushed' = flush(Len(out) + 1, flushed)
          /\ last_command' = clear(last_command)
          /\ pc' = "read"
          /\ UNCHANGED exit
       \/ /\ pc' = "aborted"
          /\ exit' = "io"
          /\ UNCHANGED <<out, flushed, last_command>>
       \/ /\ out' = Append(out, Line("FIX> ", <<>>))
          /\ pc' = "aborted"
          /\ exit' = "io"
          /\ UNCHANGED <<flushed, last_command>>
    /\ UNCHANGED restVars
    /\ UNCHANGED <<source, outcome, stdin, pos, todo, in_flight, results,
                   exec_log, handler_log, reads, err, hist>>

\* The read of one line: the next line of the stream is appended to the
\* buffer, nothing at the end of the stream; a failed read ends the process.
ReadLine ==
    /\ pc = "read"
    /\ \/ /\ last_command' =
                read_line(last_command,
                          IF pos < Len(stdin) THEN stdin[pos + 1] ELSE <<>>)
          /\ pos' = IF pos < Len(stdin) THEN pos + 1 ELSE pos
          /\ pc' = "parse"
          /\ UNCHANGED exit
       \/ /\ pc' = "aborted"
          /\ exit' = "io"
          /\ UNCHANGED <<last_command, pos>>
    /\ reads' = Append(reads, [at |-> Len(out), visible |-> flushed])
    /\ UNCHANGED restVars
    /\ UNCHANGED <<source, outcome, stdin, todo, in_flight, results,
                   exec_log, handler_log, out, flushed, err, hist>>

\* A shell that leaves the loop at the end of input and says nothing.
EofSilent ==
    /\ pc = "parse"
    /\ last_command = <<>>
    /\ pc' = "done"
    /\ exit' = "eof"
    /\ UNCHANGED restVars
    /\ UNCHANGED <<source, outcome, stdin, pos, last_command, todo, in_flight,
                   results, exec_log, handler_log, out, flushed, reads, err,
                   hist>>

\* The end of input: the buffer is empty after the read.
Eof ==
    /\ pc = "parse"
    /\ is_empty(last_command)
    /\ out' = Append(out, Line("CTRL-D", <<>>))
    /\ flushed' = println(Len(out), flushed, <<Line("CTRL-D", <<>>)>>)
    /\ pc' = "done"
    /\ exit' = "eof"
    /\ UNCHANGED restVars
    /\ UNCHANGED <<source, outcome, stdin, pos, last_command, todo, in_flight,
                   results, exec_log, handler_log, reads, err, hist>>

\* The buffer is parsed: quit leaves the loop, another command goes to
\* exec_command, an error is printed on standard error, a panic of the
\* parser ends the process.
Parse ==
    /\ pc = "parse"
    /\ ~is_empty(last_command)
    /\ LET r == from_str(last_command)
       IN  /\ outcome' = r
           /\ hist' = Append(hist, [line |-> stdin[pos], text |-> last_command,
                                    outcome |-> r])
           /\ pc' = CASE r.kind = "panic" -> "aborted"
                      [] r.kind \in {"Unknown", "InvalidArgumentCount",
                                     "InvalidArgument"} -> AfterParseError
                      [] OTHER -> AfterParseOk(r.kind)
           /\ exit' = CASE r.kind = "panic" -> "panic"
                        [] r.kind = "Quit" /\ AfterParseOk(r.kind) = "done" ->
                              "quit"
                        [] OTHER -> exit
           /\ err' = IF r.kind \in {"Unknown", "InvalidArgumentCount",
                                    "InvalidArgument"}
                     THEN Append(err, Line("Error when running command", <<r>>))
                     ELSE err
    /\ UNCHANGED restVars
    /\ UNCHANGED <<source, stdin, pos, last_command, todo, in_flight, results,
                   exec_log, handler_log, out, flushed, reads>>

\* exec_command is entered: the arm of the command prints what it prints
\* first and has its operations to call; an arm without operations is over.
Dispatch ==
    /\ pc = "exec"
    /\ exec_log' = Append(exec_log, outcome)
    /\ out' = out \o ExecEcho(outcome)
    /\ flushed' = println(Len(out), flushed, ExecEcho(outcome))
    /\ todo' = HandlerOps(outcome.kind)
    /\ results' = <<>>
    /\ pc' = IF HandlerOps(outcome.kind) = <<>> THEN "prompt" ELSE "call"
    /\ UNCHANGED restVars
    /\ UNCHANGED <<source, outcome, stdin, pos, last_command, in_flight,
                   handler_log, reads, err, hist, exit>>

\* A shell that calls the next operation without waiting for the last one.
CallEager ==
    /\ pc = "call"
    /\ todo # <<>>
    /\ in_flight' = Head(todo)
    /\ todo' = Tail(todo)
    /\ handler_log' =
          Append(handler_log,
                 [op |-> Head(todo), msg |-> outcome.msg,
                  session_id |-> outcome.session_id, line |-> pos])
    /\ UNCHANGED restVars
    /\ UNCHANGED <<source, pc, outcome, stdin, pos, last_command, results,
                   exec_log, out, flushed, reads, err, hist, exit>>

\* The next operation of the arm is called on the connection handler.
Call ==
    /\ pc = "call"
    /\ in_flight = ""
    /\ todo # <<>>
    /\ in_flight' = Head(todo)
    /\ todo' = Tail(todo)
    /\ handler_log' =
          Append(handler_log,
                 [op |-> Head(todo), msg |-> outcome.msg,
                  session_id |-> outcome.session_id, line |-> pos])
    /\ UNCHANGED restVars
    /\ UNCHANGED <<source, pc, outcome, stdin, pos, last_command, results,
                   exec_log, out, flushed, reads, err, hist, exit>>

\* The operation returns; after the last one the arm prints the results and
\* exec_command returns to the loop.
Return ==
    /\ pc = "call"
    /\ in_flight # ""
    /\ \E res \in OpResults(in_flight) :
          /\ results' = Append(results, res)
          /\ IF todo = <<>>
             THEN /\ out' = out \o ExecReport(outcome.kind, Append(results, res))
                  /\ flushed' =
                        println(Len(out), flushed,
                                ExecReport(outcome.kind, Append(results, res)))
                  /\ pc' = AfterExec(Append(results, res))
             ELSE UNCHANGED <<out, flushed, pc>>
    /\ in_flight' = ""
    /\ UNCHANGED restVars
    /\ UNCHANGED <<source, outcome, stdin, pos, last_command, todo, exec_log,
                   handler_log, reads, err, hist, exit>>

NextRepl ==
    \/ Prompt
    \/ ReadLine
    \/ Eof
    \/ Parse
    \/ Dispatch
    \/ Call
    \/ Return

SpecRepl == InitRepl /\ [][NextRepl]_vars

\* The streams of one line at most, with an unterminated last line or
\* without, and the example.
ShortStreams ==
    LET whole == LinesOf(0) \cup LinesOf(1)
    IN  whole
        \cup {Append(s, tl) : s \in whole, tl \in UnterminatedTails}
        \cup ExampleStreams

InitShort ==
    /\ InitRepl
    /\ stdin \in ShortStreams

\* A step of the process while the loop is not over: every step of the
\* loop moves it to another place or changes what is in flight.
Runs ==
    /\ pc \notin {"done", "aborted"}
    /\ pc' \in {"prompt", "read", "parse", "exec", "call", "done", "aborted"}
    /\ in_flight' \in {"", "start", "stop", "is_logged_on", "is_stopped",
                        "block", "poll", "send_to_target"}

\* The process runs on and every operation called returns: while the loop
\* is not over, its next step is taken in the end.
FairRepl ==
    InitShort /\ [][NextRepl]_vars /\ WF_<<pc, in_flight>>(Runs)

----------------------------------------------------------------------------
(* The program of the shell (fix_repl/main.rs): main and server_loop       *)
(* around the loop of the shell.                                           *)

\* The arguments the program is started with, after its name.
ArgsPool ==
    {<<>>, <<"acceptor">>, <<"acceptor", "server.ini">>,
     <<"initiator", "client.ini">>, <<"server", "server.ini">>}

\* The lines typed to the program.
MainLines ==
    {<<"s", "t", "a", "r", "t">>, <<"s", "t", "o", "p">>,
     <<"q", "u", "i", "t">>, <<"f", "o", "o">>}

RECURSIVE MainLinesOf(_)
MainLinesOf(k) ==
    IF k = 0 THEN {<<>>}
    ELSE {Append(s, l \o <<"\n">>) : s \in MainLinesOf(k - 1), l \in MainLines}

MainStreams == UNION {MainLinesOf(k) : k \in 0..MaxLines}

\* A program that takes any word for a connection mode.
ModeKnownAny(mode) == TRUE

\* The arms "initiator" and "acceptor" of the match on the mode.
ModeKnown(mode) == mode \in {"initiator", "acceptor"}

\* A server_loop that enters the shell whatever start returned.
AfterStartIgnored(res) == "prompt"

\* connection_handler.start()?: the shell is entered after a start that
\* succeeded, server_loop returns the error of one that failed.
AfterStart(res) == IF res = "Ok" THEN "prompt" ELSE "exited"

\* server_loop's own call on the connection handler, outside every line.
LifecycleCall(op) == [op |-> op, msg |-> <<>>, session_id |-> <<>>, line |-> 0]

\* main returns Err: the runtime prints it on standard error, exit code 1.
ReturnErr(cause) == Line("Error", <<cause>>)

InitMain ==
    /\ argv \in ArgsPool
    /\ stdin \in MainStreams
    /\ source = <<>>
    /\ pc = "main"
    /\ outcome = NoOutcome
    /\ ShellIdle
    /\ exit_code = -1
    /\ lifecycle = <<>>
    /\ SideIdle

\* main, its arguments: without a mode and a configuration file the usage
\* is printed on standard error and the process exits with code 1.
MainArgs ==
    /\ pc = "main"
    /\ IF Len(argv) < 2
       THEN /\ err' = Append(err, Line("Bad program usage", <<>>))
            /\ exit_code' = 1
            /\ pc' = "exited"
            /\ UNCHANGED <<out, flushed>>
       ELSE /\ out' = Append(out, Line(">> Creating resources", <<>>))
            /\ flushed' = println(Len(out), flushed,
                                  <<Line(">> Creating resources", <<>>)>>)
            /\ pc' = "create"
            /\ UNCHANGED <<err, exit_code>>
    /\ UNCHANGED sideVars
    /\ UNCHANGED <<source, outcome, stdin, pos, last_command, todo, in_flight,
                   results, exec_log, handler_log, reads, hist, exit, argv,
                   lifecycle>>

\* The settings, the store, the log and the application are created; the
\* failure of one of them is the error main returns.
CreateResources ==
    /\ pc = "create"
    /\ \/ /\ pc' = "mode"
          /\ UNCHANGED <<err, exit_code>>
       \/ /\ err' = Append(err, ReturnErr("resources"))
          /\ exit_code' = 1
          /\ pc' = "exited"
    /\ UNCHANGED sideVars
    /\ UNCHANGED <<source, outcome, stdin, pos, last_command, todo, in_flight,
                   results, exec_log, handler_log, out, flushed, reads, hist,
                   exit, argv, lifecycle>>

\* The match on the mode: a known mode creates its connection handler and
\* enters server_loop, which starts it; any other word is an error printed
\* on standard error and exit code 1.
MatchMode ==
    /\ pc = "mode"
    /\ IF ModeKnown(argv[1])
       THEN \/ /\ out' = Append(out, Line(">> connection handler START", <<>>))
               /\ flushed' =
                     println(Len(out), flushed,
                             <<Line(">> connection handler START", <<>>)>>)
               /\ in_flight' = "start"
               /\ handler_log' = Append(handler_log, LifecycleCall("start"))
               /\ pc' = "starting"
               /\ UNCHANGED <<err, exit_code>>
            \/ /\ err' = Append(err, ReturnErr("handler"))
               /\ exit_code' = 1
               /\ pc' = "exited"
               /\ UNCHANGED <<out, flushed, in_flight, handler_log>>
       ELSE /\ err' = Append(err, Line("Invalid connection mode", <<>>))
            /\ exit_code' = 1
            /\ pc' = "exited"
            /\ UNCHANGED <<out, flushed, in_flight, handler_log>>
    /\ UNCHANGED sideVars
    /\ UNCHANGED <<source, outcome, stdin, pos, last_command, todo, results,
                   exec_log, reads, hist, exit, argv, lifecycle>>

\* start returns: after a success the shell is made and its loop entered,
\* which prints its welcome; a failure is the error main returns.
StartReturn ==
    /\ pc = "starting"
    /\ \E res \in {"Ok", "Err"} :
          /\ lifecycle' = Append(lifecycle, [op |-> "start", result |-> res])
          /\ pc' = AfterStart(res)
          /\ IF AfterStart(res) = "prompt"
             THEN /\ out' = Append(out, Line("welcome", <<>>))
                  /\ flushed' = println(Len(out), flushed,
                                        <<Line("welcome", <<>>)>>)
                  /\ UNCHANGED <<err, exit_code>>
             ELSE /\ err' = Append(err, ReturnErr("start"))
                  /\ exit_code' = 1
                  /\ UNCHANGED <<out, flushed>>
    /\ in_flight' = ""
    /\ UNCHANGED sideVars
    /\ UNCHANGED <<source, outcome, stdin, pos, last_command, todo, results,
                   exec_log, handler_log, reads, hist, exit, argv>>

\* The loop of the shell has ended: server_loop stops the connection
\* handler.
ServerStop ==
    /\ pc = "done"
    /\ out' = Append(out, Line(">> connection handler STOP", <<>>))
    /\ flushed' = println(Len(out), flushed,
                          <<Line(">> connection handler STOP", <<>>)>>)
    /\ in_flight' = "stop"
    /\ handler_log' = Append(handler_log, LifecycleCall("stop"))
    /\ pc' = "stopping"
    /\ UNCHANGED sideVars
    /\ UNCHANGED <<source, outcome, stdin, pos, last_command, todo, results,
                   exec_log, reads, err, hist, exit, argv, exit_code,
                   lifecycle>>

\* stop returns: after a success main says good-bye and returns Ok, a
\* failure is the error main returns.
StopReturn ==
    /\ pc = "stopping"
    /\ \E res \in {"Ok", "Err"} :
          /\ lifecycle' = Append(lifecycle, [op |-> "stop", result |-> res])
          /\ IF res = "Ok"
             THEN /\ out' = Append(out, Line(">> All cleared. Bye !", <<>>))
                  /\ flushed' = println(Len(out), flushed,
                                        <<Line(">> All cleared. Bye !", <<>>)>>)
                  /\ exit_code' = 0
                  /\ UNCHANGED err
             ELSE /\ err' = Append(err, ReturnErr("stop"))
                  /\ exit_code' = 1
                  /\ UNCHANGED <<out, flushed>>
    /\ in_flight' = ""
    /\ pc' = "exited"
    /\ UNCHANGED sideVars
    /\ UNCHANGED <<source, outcome, stdin, pos, last_command, todo, results,
                   exec_log, handler_log, reads, hist, exit, argv>>

\* A panic inside the loop of the shell ends the process with code 101.
PanicExit ==
    /\ pc = "aborted"
    /\ exit_code' = 101
    /\ pc' = "exited"
    /\ UNCHANGED sideVars
    /\ UNCHANGED <<source, outcome, shellVars, argv, lifecycle>>

NextMain ==
    \/ MainArgs
    \/ CreateResources
    \/ MatchMode
    \/ StartReturn
    \/ NextRepl
    \/ ServerStop
    \/ StopReturn
    \/ PanicExit

SpecMain == InitMain /\ [][NextMain]_vars

----------------------------------------------------------------------------
(* The logging application (fix_repl/fix_app.rs): the callbacks of the     *)
(* engine, each on the thread the engine calls it on.  A callback is four  *)
(* steps: it is entered, a message callback increments the counter, the    *)
(* counter is loaded, the line is written under the lock of stdout.        *)

\* AtomicU32: the values of the counter are 0 .. 2^32 - 1, here
\* hi * 2^16 + lo with both halves in 0 .. 2^16 - 1.
HalfModulus == 65536

U32Max == U32(HalfModulus - 1, HalfModulus - 1)

\* v + 1 modulo 2^32: the carry goes from the low half to the high half and
\* is lost beyond it.
wrapping_add_one(v) ==
    IF v.lo + 1 < HalfModulus THEN U32(v.hi, v.lo + 1)
    ELSE IF v.hi + 1 < HalfModulus THEN U32(v.hi + 1, 0)
    ELSE Zero

\* v + n modulo 2^32.
RECURSIVE wrapping_add(_, _)
wrapping_add(v, n) ==
    IF n = 0 THEN v ELSE wrapping_add(wrapping_add_one(v), n - 1)

\* How many callbacks the engine makes in a run.
MaxCalls == 2

MessageCallbacks == {"to_admin", "to_app", "from_admin", "from_app"}

SessionCallbacks == {"on_create", "on_logon", "on_logout"}

\* The counter at the start of the run: fresh, or at the last value but one
\* of its range.
InitialCounts == {Zero, U32(HalfModulus - 1, HalfModulus - 2)}

\* How many increments the callbacks of the run have made.
Increments ==
    Cardinality({i \in 1..Len(app_out) : app_out[i].callback \in MessageCallbacks})
    + Cardinality({t \in Threads : /\ th[t].callback \in MessageCallbacks
                                   /\ th[t].at \in {"load", "write"}})

\* The callbacks entered so far.
Entered == Len(app_out) + Cardinality({t \in Threads : th[t].at # "idle"})

AppTypeOK ==
    /\ message_index.hi \in 0..(HalfModulus - 1)
    /\ message_index.lo \in 0..(HalfModulus - 1)
    /\ base \in InitialCounts
    /\ \A t \in Threads :
          /\ th[t].at \in {"idle", "inc", "load", "write"}
          /\ th[t].callback \in MessageCallbacks \cup SessionCallbacks \cup {""}
    /\ Entered <= MaxCalls

InitApp ==
    /\ source = <<>>
    /\ pc = "app"
    /\ outcome = NoOutcome
    /\ stdin = <<>>
    /\ ShellIdle
    /\ MainIdle
    /\ DemoIdle
    /\ base \in InitialCounts
    /\ message_index = base
    /\ th = [t \in Threads |-> NoCallback]
    /\ app_out = <<>>

\* The engine calls a callback on a thread that is in none.
Enter(t, cb) ==
    /\ pc = "app"
    /\ th[t].at = "idle"
    /\ Entered < MaxCalls
    /\ th' = [th EXCEPT ![t] = [@ EXCEPT !.at = IF cb \in MessageCallbacks
                                                 THEN "inc" ELSE "load",
                                         !.callback = cb,
                                         !.own = NoValue]]
    /\ UNCHANGED <<message_index, base, app_out>>
    /\ UNCHANGED <<source, pc, outcome, shellVars, mainVars, demoVars>>

on_create(t) == Enter(t, "on_create")

on_logon(t) == Enter(t, "on_logon")

on_logout(t) == Enter(t, "on_logout")

on_msg_to_admin(t) == Enter(t, "to_admin")

on_msg_to_app(t) == Enter(t, "to_app")

on_msg_from_admin(t) == Enter(t, "from_admin")

on_msg_from_app(t) == Enter(t, "from_app")

\* An increment made of a load and a store: the value stored is one more
\* than the value the thread loaded last.
inc_message_index_torn(t) ==
    /\ pc = "app"
    /\ th[t].at = "inc"
    /\ message_index' = wrapping_add_one(th[t].msg_count)
    /\ th' = [th EXCEPT ![t] = [@ EXCEPT !.at = "load",
                                         !.own = wrapping_add_one(th[t].msg_count),
                                         !.seen = Increments + 1]]
    /\ UNCHANGED <<base, app_out>>
    /\ UNCHANGED <<source, pc, outcome, shellVars, mainVars, demoVars>>

\* self.message_index.fetch_add(1, Ordering::Relaxed): one atomic step, that
\* wraps around; the value it returns is dropped.  own is the value the
\* increment gave the counter.
inc_message_index(t) ==
    /\ pc = "app"
    /\ th[t].at = "inc"
    /\ message_index' = wrapping_add_one(message_index)
    /\ th' = [th EXCEPT ![t] = [@ EXCEPT !.at = "load",
                                         !.own = wrapping_add_one(message_index),
                                         !.seen = Increments + 1]]
    /\ UNCHANGED <<base, app_out>>
    /\ UNCHANGED <<source, pc, outcome, shellVars, mainVars, demoVars>>

\* let msg_count = self.message_index.load(Ordering::Relaxed): the value
\* the counter had after one of the increments made so far, none older than
\* the last the thread has seen or made (seen counts the increments of the
\* run up to that one).
Load(t) ==
    /\ pc = "app"
    /\ th[t].at = "load"
    /\ \E k \in th[t].seen..Increments :
          th' = [th EXCEPT ![t] = [@ EXCEPT !.at = "write",
                                            !.msg_count = wrapping_add(base, k),
                                            !.seen = k]]
    /\ UNCHANGED <<message_index, base, app_out>>
    /\ UNCHANGED <<source, pc, outcome, shellVars, mainVars, demoVars>>

\* The writes of print_callback, under the lock of stdout: one line, and
\* the callback returns.
Write(t) ==
    /\ pc = "app"
    /\ th[t].at = "write"
    /\ app_out' = Append(app_out, [callback |-> th[t].callback,
                                   id |-> th[t].msg_count,
                                   own |-> th[t].own,
                                   thread |-> t])
    /\ th' = [th EXCEPT ![t] = [@ EXCEPT !.at = "idle", !.callback = ""]]
    /\ UNCHANGED <<message_index, base>>
    /\ UNCHANGED <<source, pc, outcome, shellVars, mainVars, demoVars>>

NextApp ==
    \E t \in Threads :
        \/ on_create(t)
        \/ on_logon(t)
        \/ on_logout(t)
        \/ on_msg_to_admin(t)
        \/ on_msg_to_app(t)
        \/ on_msg_from_admin(t)
        \/ on_msg_from_app(t)
        \/ inc_message_index(t)
        \/ Load(t)
        \/ Write(t)

SpecApp == InitApp /\ [][NextApp]_vars

----------------------------------------------------------------------------
(* The two acceptor demos (demo_config.rs, fix_getting_started.rs): main   *)
(* makes the acceptor, starts it, reads standard input one byte at a time  *)
(* until the byte is 'q', and stops the acceptor.  Here stdin holds the    *)
(* bytes typed, pos how many of them have been read.                       *)

MaxBytes == 2

\* How many failed reads are counted.
MaxFailedReads == 2

Demos == {"demo_config", "fix_getting_started"}

BytePool == {"q", "Q", "x", "\n"}

RECURSIVE BytesOf(_)
BytesOf(k) ==
    IF k = 0 THEN {<<>>}
    ELSE {Append(s, b) : s \in BytesOf(k - 1), b \in BytePool}

ByteStreams == UNION {BytesOf(k) : k \in 0..MaxBytes}

DemoArgs == {<<>>, <<"server.ini">>}

\* A loop that a failed read ends.
AfterFailedReadBreak == "demo_stop"

\* let _ = stdin.read_exact(&mut stdin_buf): the failure is dropped and the
\* test of the byte comes next.
AfterFailedRead == "demo_check"

\* stdin_buf[0] == b'q'
IsQuitByte(b) == b = "q"

InitDemo ==
    /\ demo \in Demos
    /\ argv \in DemoArgs
    /\ stdin \in ByteStreams
    /\ stdin_buf = ZeroByte
    /\ failed_reads = 0
    /\ source = <<>>
    /\ pc = "demo_main"
    /\ outcome = NoOutcome
    /\ ShellIdle
    /\ exit_code = -1
    /\ lifecycle = <<>>
    /\ AppIdle

\* main, before the resources.  fix_getting_started takes the path of its
\* configuration from the arguments and without one prints the usage on
\* standard error and exits with code 1; demo_config builds its settings
\* in code, which may fail.
DemoMain ==
    /\ pc = "demo_main"
    /\ IF demo = "fix_getting_started"
       THEN IF Len(argv) < 1
            THEN /\ err' = Append(err, Line("Bad program usage", <<>>))
                 /\ exit_code' = 1
                 /\ pc' = "exited"
                 /\ UNCHANGED <<out, flushed>>
            ELSE /\ out' = Append(out, Line(">> Creating resources", <<>>))
                 /\ flushed' = println(Len(out), flushed,
                                       <<Line(">> Creating resources", <<>>)>>)
                 /\ pc' = "demo_create"
                 /\ UNCHANGED <<err, exit_code>>
       ELSE \/ /\ out' = out \o <<Line(">> Configuring application", <<>>),
                                  Line(">> Creating resources", <<>>)>>
               /\ flushed' = println(Len(out) + 1, flushed,
                                     <<Line(">> Creating resources", <<>>)>>)
               /\ pc' = "demo_create"
               /\ UNCHANGED <<err, exit_code>>
            \/ /\ out' = Append(out, Line(">> Configuring application", <<>>))
               /\ flushed' = println(Len(out), flushed,
                                     <<Line(">> Configuring application", <<>>)>>)
               /\ err' = Append(err, ReturnErr("settings"))
               /\ exit_code' = 1
               /\ pc' = "exited"
    /\ UNCHANGED <<appVars, demoVars>>
    /\ UNCHANGED <<source, outcome, stdin, pos, last_command, todo, in_flight,
                   results, exec_log, handler_log, reads, hist, exit, argv,
                   lifecycle>>

\* The settings, the store, the log, the application and the acceptor are
\* made, the failure of one of them is the error main returns; then main
\* starts the acceptor.
DemoCreate ==
    /\ pc = "demo_create"
    /\ \/ /\ out' = Append(out, Line(">> connection handler START", <<>>))
          /\ flushed' = println(Len(out), flushed,
                                <<Line(">> connection handler START", <<>>)>>)
          /\ in_flight' = "start"
          /\ handler_log' = Append(handler_log, LifecycleCall("start"))
          /\ pc' = "demo_starting"
          /\ UNCHANGED <<err, exit_code>>
       \/ /\ err' = Append(err, ReturnErr("resources"))
          /\ exit_code' = 1
          /\ pc' = "exited"
          /\ UNCHANGED <<out, flushed, in_flight, handler_log>>
    /\ UNCHANGED <<appVars, demoVars>>
    /\ UNCHANGED <<source, outcome, stdin, pos, last_command, todo, results,
                   exec_log, reads, hist, exit, argv, lifecycle>>

\* acceptor.start()? returns: after a success main says how to quit and
\* enters the loop, a failure is the error main returns.
DemoStartReturn ==
    /\ pc = "demo_starting"
    /\ \E res \in {"Ok", "Err"} :
          /\ lifecycle' = Append(lifecycle, [op |-> "start", result |-> res])
          /\ IF res = "Ok"
             THEN /\ out' = Append(out, Line(">> App running, press 'q' to quit", <<>>))
                  /\ flushed' = println(Len(out), flushed,
                                   <<Line(">> App running, press 'q' to quit", <<>>)>>)
                  /\ pc' = "demo_read"
                  /\ UNCHANGED <<err, exit_code>>
             ELSE /\ err' = Append(err, ReturnErr("start"))
                  /\ exit_code' = 1
                  /\ pc' = "exited"
                  /\ UNCHANGED <<out, flushed>>
    /\ in_flight' = ""
    /\ UNCHANGED <<appVars, demoVars>>
    /\ UNCHANGED <<source, outcome, stdin, pos, last_command, todo, results,
                   exec_log, handler_log, reads, hist, exit, argv>>

\* let _ = stdin.read_exact(&mut stdin_buf): the next byte is put in the
\* buffer, or the read fails, at the end of the input or before it, and
\* leaves the buffer as it was.
DemoRead ==
    /\ pc = "demo_read"
    /\ \/ /\ pos < Len(stdin)
          /\ stdin_buf' = stdin[pos + 1]
          /\ pos' = pos + 1
          /\ pc' = "demo_check"
          /\ UNCHANGED failed_reads
       \/ /\ failed_reads' = IF failed_reads < MaxFailedReads
                             THEN failed_reads + 1 ELSE failed_reads
          /\ pc' = AfterFailedRead
          /\ UNCHANGED <<stdin_buf, pos>>
    /\ UNCHANGED <<appVars, demo>>
    /\ UNCHANGED <<source, outcome, stdin, last_command, todo, in_flight,
                   results, exec_log, handler_log, out, flushed, reads, err,
                   hist, exit, argv, exit_code, lifecycle>>

\* if stdin_buf[0] == b'q' { break; }
DemoCheck ==
    /\ pc = "demo_check"
    /\ pc' = IF IsQuitByte(stdin_buf) THEN "demo_stop" ELSE "demo_read"
    /\ UNCHANGED <<appVars, demoVars>>
    /\ UNCHANGED <<source, outcome, shellVars, mainVars>>

\* After the loop: println!(">> connection handler STOP"); acceptor.stop()
DemoStop ==
    /\ pc = "demo_stop"
    /\ out' = Append(out, Line(">> connection handler STOP", <<>>))
    /\ flushed' = println(Len(out), flushed,
                          <<Line(">> connection handler STOP", <<>>)>>)
    /\ in_flight' = "stop"
    /\ handler_log' = Append(handler_log, LifecycleCall("stop"))
    /\ pc' = "demo_stopping"
    /\ UNCHANGED <<appVars, demoVars>>
    /\ UNCHANGED <<source, outcome, stdin, pos, last_command, todo, results,
                   exec_log, reads, err, hist, exit, argv, exit_code,
                   lifecycle>>

\* acceptor.stop()? returns: after a success main says good-bye and returns
\* Ok, a failure is the error main returns.
DemoStopReturn ==
    /\ pc = "demo_stopping"
    /\ \E res \in {"Ok", "Err"} :
          /\ lifecycle' = Append(lifecycle, [op |-> "stop", result |-> res])
          /\ IF res = "Ok"
             THEN /\ out' = Append(out, Line(">> All cleared. Bye !", <<>>))
                  /\ flushed' = println(Len(out), flushed,
                                        <<Line(">> All cleared. Bye !", <<>>)>>)
                  /\ exit_code' = 0
                  /\ UNCHANGED err
             ELSE /\ err' = Append(err, ReturnErr("stop"))
                  /\ exit_code' = 1
                  /\ UNCHANGED <<out, flushed>>
    /\ in_flight' = ""
    /\ pc' = "exited"
    /\ UNCHANGED <<appVars, demoVars>>
    /\ UNCHANGED <<source, outcome, stdin, pos, last_command, todo, results,
                   exec_log, handler_log, reads, hist, exit, argv>>

NextDemo ==
    \/ DemoMain
    \/ DemoCreate
    \/ DemoStartReturn
    \/ DemoRead
    \/ DemoCheck
    \/ DemoStop
    \/ DemoStopReturn

SpecDemo == InitDemo /\ [][NextDemo]_vars

----------------------------------------------------------------------------
(* What the properties speak of, stated on the characters of the line.     *)

Blank == {" ", "\t", "\n", "\r"}

\* The line without its leading and trailing blanks.
Stripped(s) ==
    IF \A i \in 1..Len(s) : s[i] \in Blank THEN <<>>
    ELSE SubSeq(s,
            CHOOSE i \in 1..Len(s) :
                s[i] \notin Blank /\ \A j \in 1..(i - 1) : s[j] \in Blank,
            CHOOSE i \in 1..Len(s) :
                s[i] \notin Blank /\ \A j \in (i + 1)..Len(s) : s[j] \in Blank)

\* The positions where a word (a run of non-blank characters) starts.
WordStarts(s) ==
    {i \in 1..Len(s) : s[i] \notin Blank /\ (i = 1 \/ s[i - 1] \in Blank)}

WordCount(s) == Cardinality(WordStarts(s))

\* Where the k-th word of s starts and where it ends.
WordStart(s, k) ==
    LET starts == WordStarts(s)
    IN  CHOOSE i \in starts : Cardinality({j \in starts : j <= i}) = k

WordEnd(s, k) ==
    LET b == WordStart(s, k)
    IN  CHOOSE i \in b..Len(s) :
            /\ (i = Len(s) \/ s[i + 1] \in Blank)
            /\ \A j \in b..i : s[j] \notin Blank

\* The k-th word of s.
Word(s, k) ==
    LET b == WordStart(s, k)
        e == CHOOSE i \in b..Len(s) :
                 /\ (i = Len(s) \/ s[i + 1] \in Blank)
                 /\ \A j \in b..i : s[j] \notin Blank
    IN  SubSeq(s, b, e)

\* The line cut after its fourth word (the target of a send_to command).
CutAfterTarget(s) ==
    IF WordCount(s) <= 4 THEN s ELSE SubSeq(s, 1, WordEnd(s, 4))

\* A send_to command: the stripped line t starts with "send_to ".
IsSendTo(t) ==
    Len(t) >= 8 /\ SubSeq(t, 1, 8) = <<"s", "e", "n", "d", "_", "t", "o", " ">>

\* The field specs of a send_to command: the pieces of its second word.
FieldTexts(t) == split(Word(t, 2), "|")

\* The position of the first '=' of a field spec, 0 when it has none.
EqPos(f) ==
    IF \A i \in 1..Len(f) : f[i] # "=" THEN 0
    ELSE CHOOSE i \in 1..Len(f) : f[i] = "=" /\ \A j \in 1..(i - 1) : f[j] # "="

TagText(f) == SubSeq(f, 1, EqPos(f) - 1)

ValueText(f) == SubSeq(f, EqPos(f) + 1, Len(f))

\* An integer in decimal: an optional sign, then one digit or more.
IsIntegerText(x) ==
    LET digits == IF x # <<>> /\ x[1] \in {"+", "-"} THEN Tail(x) ELSE x
    IN  /\ digits # <<>>
        /\ \A i \in 1..Len(digits) :
              digits[i] \in {"0", "1", "2", "3", "4", "5", "6", "7", "8", "9"}

\* <integer tag>=<value>
WellFormed(f) == EqPos(f) > 0 /\ IsIntegerText(TagText(f))

\* The number a tag text denotes, when it fits the 32 bits of a tag.
TagFits(f) == parse_i32(TagText(f)).ok
TagOf(f) == parse_i32(TagText(f)).val

KeywordTable ==
    {<<<<"q", "u", "i", "t">>, "Quit">>, <<<<"q">>, "Quit">>,
     <<<<"h", "e", "l", "p">>, "Help">>, <<<<"?">>, "Help">>,
     <<<<"s", "t", "a", "r", "t">>, "Start">>, <<<<"s", "t", "o", "p">>, "Stop">>,
     <<<<"s", "t", "a", "t", "u", "s">>, "Status">>,
     <<<<"b", "l", "o", "c", "k">>, "Block">>, <<<<"p", "o", "l", "l">>, "Poll">>,
     <<<<>>, "NoOperation">>}

KeywordTexts == {kw[1] : kw \in KeywordTable}

----------------------------------------------------------------------------

\* C1: a line whose stripped text is quit, q, help, ?, start, stop, status,
\* block, poll or empty parses to Quit, Quit, Help, Help, Start, Stop, Status,
\* Block, Poll, NoOperation; two different keywords give the same variant
\* only for quit/q and help/?.
C1_KeywordsParse ==
    pc = "parsed" =>
        LET text == Stripped(source)
        IN  \A kw \in KeywordTable :
                text = kw[1] =>
                    /\ outcome = [NoOutcome EXCEPT !.kind = kw[2]]
                    /\ \A k2 \in KeywordTexts :
                          (k2 # text /\ from_str(k2).kind = outcome.kind) =>
                              {text, k2} \in {{<<"q", "u", "i", "t">>, <<"q">>},
                                              {<<"h", "e", "l", "p">>, <<"?">>}}

C1_Witness ==
    /\ pc = "parsed"
    /\ source = <<" ", "q", " ", "\r", "\n">>
    /\ outcome.kind = "Quit"

\* C2 as stated: a line that is no keyword and no send_to command fails with
\* Unknown(text), text being the input line character for character.
C2_UnknownVerbatim ==
    pc = "parsed" =>
        LET text == Stripped(source)
        IN  (text \notin KeywordTexts /\ ~IsSendTo(text)) =>
                (outcome.kind = "Unknown" /\ outcome.text = source)

\* C2 amended: a line that is no keyword and no send_to command fails with
\* Unknown(text), text being the line without its leading and trailing
\* whitespace (the characters between are kept as they are).
C2_UnknownStripped ==
    pc = "parsed" =>
        LET text == Stripped(source)
        IN  (text \notin KeywordTexts /\ ~IsSendTo(text)) =>
                (outcome.kind = "Unknown" /\ outcome.text = text)

C2_Witness ==
    /\ pc = "parsed"
    /\ source = <<" ", "q", "u", " ", "i", "t", " ", "\r", "\n">>
    /\ outcome.kind = "Unknown"
    /\ outcome.text = <<"q", "u", " ", "i", "t">>

C4_MissingSenderOrTarget ==
    pc = "parsed" =>
        LET text == Stripped(source)
        IN  IsSendTo(text) =>
              /\ WordCount(text) = 2 =>
                    (/\ outcome.kind = "InvalidArgumentCount"
                     /\ outcome.current = 1 /\ outcome.expected = 3)
              /\ WordCount(text) = 3 =>
                    (/\ outcome.kind = "InvalidArgumentCount"
                     /\ outcome.current = 2 /\ outcome.expected = 3)
              /\ outcome.kind = "InvalidArgumentCount" =>
                    (/\ outcome.current = WordCount(text) - 1
                     /\ outcome.expected = 3)

C4_Witness ==
    /\ pc = "parsed"
    /\ Stripped(source) = <<"s", "e", "n", "d", "_", "t", "o", " ",
                            "3", "5", "=", "D", " ", "C", "L", "I", "E", "N", "T">>
    /\ outcome.kind = "InvalidArgumentCount"
    /\ outcome.current = 2

\* C5: a line that holds the word send_to and nothing else (trailing
\* whitespace or not) fails with InvalidArgumentCount{current: 0, expected: 3}.
C5_MissingFieldSpec ==
    (pc = "parsed" /\ Stripped(source) = <<"s", "e", "n", "d", "_", "t", "o">>) =>
        (/\ outcome.kind = "InvalidArgumentCount"
         /\ outcome.current = 0 /\ outcome.expected = 3)

\* C6: in a send_to command with its three arguments, a field spec without
\* '=' or with a left side that is no integer (an empty field spec too)
\* makes the parse fail with InvalidArgument; no message and no session id
\* is returned, and set_field is called for no field spec at or after the
\* first malformed one, whatever the later field specs are.
C6_FirstMalformedFieldStops ==
    pc = "parsed" =>
        LET text == Stripped(source)
            fields == FieldTexts(text)
            bad == CHOOSE i \in 1..Len(fields) :
                       /\ ~WellFormed(fields[i])
                       /\ \A j \in 1..(i - 1) : WellFormed(fields[j])
            calls == outcome.set_field_calls
        IN  (/\ IsSendTo(text)
             /\ WordCount(text) >= 4
             /\ \E i \in 1..Len(fields) : ~WellFormed(fields[i])) =>
                /\ outcome.kind = "InvalidArgument"
                /\ outcome.msg = <<>>
                /\ outcome.session_id = <<>>
                /\ Len(calls) < bad
                /\ \A i \in 1..Len(calls) :
                      calls[i] = <<TagOf(fields[i]), ValueText(fields[i])>>
                /\ (\A j \in 1..(bad - 1) : TagFits(fields[j])) => Len(calls) = bad - 1

C6_Witness ==
    /\ pc = "parsed"
    /\ Stripped(source) = <<"s", "e", "n", "d", "_", "t", "o", " ",
                            "3", "5", "=", "D", "|", "a", "b", "c", "=", "D", " ",
                            "C", "L", "I", "E", "N", "T", " ",
                            "E", "X", "C", "H", "A", "N", "G", "E">>
    /\ outcome.kind = "InvalidArgument"
    /\ outcome.set_field_calls = << <<35, <<"D">>>> >>

\* C7: the tag of a field spec is a non-negative integer: a field spec with
\* a negative left side (-1=X) is rejected with InvalidArgument and
\* set_field is never called with a negative tag.
C7_NegativeTagRejected ==
    pc = "parsed" =>
        LET text == Stripped(source)
            fields == FieldTexts(text)
            calls == outcome.set_field_calls
        IN  /\ \A k \in 1..Len(calls) : calls[k][1] >= 0
            /\ (/\ IsSendTo(text)
                /\ WordCount(text) >= 4
                /\ \E i \in 1..Len(fields) :
                      /\ WellFormed(fields[i])
                      /\ TagText(fields[i])[1] = "-"
                      /\ TagOf(fields[i]) < 0)
                    => outcome.kind = "InvalidArgument"

\* C8: a field spec is cut at its first '=' only: the value given to
\* set_field is everything after the first '=', further '=' included, and
\* may be empty; a line whose field specs are all <tag>=<value> (the value
\* empty or holding '=' or not) is no error.
C8_SplitAtFirstEquals ==
    pc = "parsed" =>
        LET text == Stripped(source)
            fields == FieldTexts(text)
            calls == outcome.set_field_calls
        IN  (IsSendTo(text) /\ WordCount(text) >= 4) =>
                /\ Len(calls) <= Len(fields)
                /\ \A i \in 1..Len(calls) :
                      /\ EqPos(fields[i]) > 0
                      /\ calls[i][2] = ValueText(fields[i])
                /\ (/\ \A i \in 1..Len(fields) :
                          WellFormed(fields[i]) /\ TagFits(fields[i])
                    /\ EngineAccepts(Word(text, 3))
                    /\ EngineAccepts(Word(text, 4))) =>
                        (outcome.kind = "SendMessage" /\ Len(calls) = Len(fields))

C8_Witness ==
    /\ pc = "parsed"
    /\ Stripped(source) = <<"s", "e", "n", "d", "_", "t", "o", " ",
                            "5", "8", "=", "a", "=", "b", "|", "5", "8", "=", " ",
                            "C", "L", "I", "E", "N", "T", " ",
                            "E", "X", "C", "H", "A", "N", "G", "E">>
    /\ outcome.kind = "SendMessage"
    /\ outcome.set_field_calls = << <<58, <<"a", "=", "b">>>>, <<58, <<>>>> >>

\* C9: the tokens after the target of a send_to command are ignored: the
\* result of parsing the line is the result of parsing the line cut after
\* its target token.
C9_ExtraTokensIgnored ==
    (pc = "parsed" /\ IsSendTo(Stripped(source))) =>
        outcome = from_str(CutAfterTarget(source))

C9_Witness ==
    /\ pc = "parsed"
    /\ IsSendTo(Stripped(source))
    /\ WordCount(source) = 5
    /\ CutAfterTarget(source) # source
    /\ outcome.kind = "SendMessage"

\* C10: parse gives for a line the variant, or the kind of error, it gives
\* for the line without its leading and trailing whitespace: the keywords
\* and the "send_to " prefix are matched against the trimmed text.
C10_TrimInsensitive ==
    pc = "parsed" => outcome.kind = from_str(Stripped(source)).kind

C10_Witness ==
    /\ pc = "parsed"
    /\ source # <<>>
    /\ Head(source) = " "
    /\ source[Len(source)] = "\n"
    /\ IsSendTo(Stripped(source))
    /\ ~IsSendTo(source)
    /\ outcome.kind = "SendMessage"

\* C26: in a send_to command the count of the arguments is checked first,
\* the fields next, the session identifier last.  With fewer than four
\* words the command fails with InvalidArgumentCount, expected 3 and
\* current the number of arguments given, whatever its field spec is
\* (send_to abc=D CLIENT gives current 2); with four words or more and a
\* malformed field that comes before any value the engine refuses, it fails
\* with InvalidArgument whatever its sender and target are.
C26_CountThenFieldsThenSession ==
    pc = "parsed" =>
        LET text == Stripped(source)
        IN  IsSendTo(text) =>
              /\ WordCount(text) < 4 =>
                    /\ outcome.kind = "InvalidArgumentCount"
                    /\ outcome.expected = 3
                    /\ outcome.current = WordCount(text) - 1
              /\ text = <<"s", "e", "n", "d", "_", "t", "o", " ", "a", "b", "c",
                          "=", "D", " ", "C", "L", "I", "E", "N", "T">> =>
                    /\ outcome.kind = "InvalidArgumentCount"
                    /\ outcome.current = 2
              /\ WordCount(text) >= 4 =>
                    LET fields == FieldTexts(text)
                        bad == {i \in 1..Len(fields) :
                                   ~(WellFormed(fields[i]) /\ TagFits(fields[i]))}
                    IN  (\E i \in bad :
                            \A j \in 1..(i - 1) :
                               j \in bad \/ EngineAccepts(ValueText(fields[j])))
                           => outcome.kind = "InvalidArgument"

\* A malformed field has been found in a command whose sender the engine
\* refuses.
C26_Witness ==
    /\ pc = "parsed"
    /\ Stripped(source) =
          <<"s", "e", "n", "d", "_", "t", "o", " ", "a", "b", "c", "=", "D",
            " ", "B", NUL, " ">> \o EXCHANGE
    /\ outcome.kind = "InvalidArgument"
    /\ outcome.reason = "Invalid tag number"

\* The fields of a send_to line in the opposite order, the rest of the line
\* as it was.
Reversed(s) == [i \in 1..Len(s) |-> s[Len(s) + 1 - i]]

FieldsReversed(t) ==
    SubSeq(t, 1, WordStart(t, 2) - 1)
        \o Join(Reversed(FieldTexts(t)), <<"|">>)
        \o SubSeq(t, WordEnd(t, 2) + 1, Len(t))

\* C27: when the field spec of a send_to command names a tag more than once,
\* the message holds that tag once, with the value of its last occurrence in
\* the field spec: set_field is called once per field, left to right, and a
\* later call for a tag replaces the value of an earlier one.  The order of
\* fields of different tags does not change the values the message holds.
C27_LastWriteWins ==
    (pc = "parsed" /\ outcome.kind = "SendMessage") =>
        LET text == Stripped(source)
            fields == FieldTexts(text)
            tags == {TagOf(fields[i]) : i \in 1..Len(fields)}
            last(t) == CHOOSE i \in 1..Len(fields) :
                          /\ TagOf(fields[i]) = t
                          /\ \A j \in (i + 1)..Len(fields) : TagOf(fields[j]) # t
        IN  /\ outcome.set_field_calls =
                  [i \in 1..Len(fields) |-> <<TagOf(fields[i]), ValueText(fields[i])>>]
            /\ DOMAIN outcome.msg = tags
            /\ \A t \in tags : outcome.msg[t] = ValueText(fields[last(t)])
            /\ Cardinality(tags) = Len(fields) =>
                  LET other == from_str(FieldsReversed(text))
                  IN  /\ other.kind = "SendMessage"
                      /\ other.msg = outcome.msg
                      /\ other.session_id = outcome.session_id

\* A tag named twice with two values: the message holds the second.
C27_Witness ==
    /\ pc = "parsed"
    /\ outcome.kind = "SendMessage"
    /\ LET fields == FieldTexts(Stripped(source))
       IN  /\ Len(fields) = 2
           /\ TagOf(fields[1]) = 58 /\ TagOf(fields[2]) = 58
           /\ ValueText(fields[1]) = <<"a", "=", "b">>
           /\ ValueText(fields[2]) = <<>>
    /\ outcome.msg = (58 :> <<>>)

\* Two fields of different tags, parsed in either order.
C27_WitnessOrder ==
    /\ pc = "parsed"
    /\ outcome.kind = "SendMessage"
    /\ LET fields == FieldTexts(Stripped(source))
       IN  Len(fields) = 2 /\ TagOf(fields[1]) = 58 /\ TagOf(fields[2]) = 35
    /\ from_str(FieldsReversed(Stripped(source))).msg = outcome.msg

----------------------------------------------------------------------------
(* The shell: properties.                                                  *)

ActingKinds ==
    {"Help", "Start", "Stop", "Status", "Block", "Poll", "SendMessage"}

\* The commands given to exec_command whose arm does something; the arm of
\* NoOperation is empty.
Dispatched == SelectSeq(exec_log, LAMBDA c : c.kind # "NoOperation")

\* The lines read so far that have been parsed: all of them, but the last
\* one while it waits to be parsed.
LinesParsed ==
    IF pc = "parse" /\ last_command # <<>> THEN pos - 1 ELSE pos

\* The acting commands among the results of the first n parses.
ActingOf(n) ==
    SelectSeq([i \in 1..n |-> hist[i].outcome],
              LAMBDA c : c.kind \in ActingKinds)

CountOut(text) == Cardinality({i \in 1..Len(out) : out[i].text = text})

\* C13: at the end of input the shell prints CTRL-D once, right after the
\* prompt of that iteration, and leaves the loop as a normal termination
\* without a parse or a dispatch in that iteration; it prints CTRL-D in no
\* other case; on an empty input nothing is dispatched and no operation of
\* the connection handler is invoked.
C13_EndOfInput ==
    /\ exit = "eof" =>
          /\ pc = "done"
          /\ pos = Len(stdin)
          /\ last_command = <<>>
          /\ Len(hist) = Len(stdin)
          /\ CountOut("CTRL-D") = 1
          /\ out[Len(out)].text = "CTRL-D"
          /\ out[Len(out) - 1].text = "FIX> "
          /\ todo = <<>> /\ in_flight = ""
    /\ exit # "eof" => CountOut("CTRL-D") = 0
    /\ stdin = <<>> =>
          /\ exec_log = <<>>
          /\ handler_log = <<>>
          /\ hist = <<>>
          /\ pc = "done" =>
                /\ exit = "eof"
                /\ out = <<Line("welcome", <<>>), Line("FIX> ", <<>>),
                           Line("CTRL-D", <<>>)>>

\* The input was empty from the start and the loop has ended on it.
C13_Witness ==
    /\ stdin = <<>>
    /\ exit = "eof"
    /\ CountOut("CTRL-D") = 1

\* A line of nothing but whitespace, its terminator included.
IsBlankLine(l) == l # <<>> /\ \A i \in 1..Len(l) : l[i] \in Blank

\* C14: a blank line is not the end of input.  It is parsed, to
\* NoOperation; no operation of the connection handler and no send is
\* invoked for it; the loop does not end on it; and the loop ends as end of
\* input only on a read of nothing, after every line of the stream, the
\* blank ones too, has been read and parsed.
C14_BlankLineGoesOn ==
    /\ Len(hist) = LinesParsed
    /\ \A i \in 1..LinesParsed :
          IsBlankLine(stdin[i]) =>
             /\ hist[i].line = stdin[i]
             /\ hist[i].outcome.kind = "NoOperation"
             /\ \A k \in 1..Len(handler_log) : handler_log[k].line # i
    /\ (hist # <<>> /\ IsBlankLine(hist[Len(hist)].line)) =>
          \/ pc \in {"exec", "prompt", "read", "parse"}
          \/ pc = "aborted" /\ exit = "io"
          \/ pc = "done" /\ exit = "eof" /\ last_command = <<>>
    /\ exit = "eof" =>
          /\ last_command = <<>>
          /\ pos = Len(stdin)
          /\ Len(hist) = Len(stdin)
          /\ out[Len(out) - 1].text = "FIX> "

\* A blank line has been parsed, the line after it read and executed.
C14_Witness ==
    /\ Len(hist) = 2
    /\ hist[1].line = <<"\n">>
    /\ hist[2].outcome.kind = "Status"
    /\ Len(handler_log) = 2
    /\ pc = "prompt"

\* The dispatch table: the operations of each command, in order.
DispatchTable ==
    [Quit |-> <<>>, Help |-> <<>>, NoOperation |-> <<>>,
     Start |-> <<"start">>, Stop |-> <<"stop">>,
     Status |-> <<"is_logged_on", "is_stopped">>,
     Block |-> <<"block">>, Poll |-> <<"poll">>,
     SendMessage |-> <<"send_to_target">>]

\* The operations invoked for the line of that number, in order.
OpsFor(i) ==
    LET calls == SelectSeq(handler_log, LAMBDA h : h.line = i)
    IN  [k \in 1..Len(calls) |-> calls[k].op]

IsPrefix(s, t) == Len(s) <= Len(t) /\ \A k \in 1..Len(s) : s[k] = t[k]

\* C15: for each line parsed, the operations invoked are those of the
\* dispatch table for its command, in the order of the table and once each
\* (the first of them while the command is in execution), none for a line
\* that gave Help, NoOperation, Quit or no command; a send is invoked with
\* the message and the session identifier of the parse, after their echo;
\* the invocations arrive in the order of the lines.
C15_DispatchTable ==
    /\ \A k \in 1..Len(handler_log) : handler_log[k].line \in 1..Len(hist)
    /\ \A i \in 1..Len(hist) :
          LET kind == hist[i].outcome.kind
              table == IF kind \in DOMAIN DispatchTable
                       THEN DispatchTable[kind] ELSE <<>>
          IN  IF i = Len(hist) /\ pc \in {"exec", "call"}
              THEN IsPrefix(OpsFor(i), table)
              ELSE OpsFor(i) = table
    /\ \A k \in 1..Len(handler_log) :
          /\ k > 1 => handler_log[k - 1].line <= handler_log[k].line
          /\ handler_log[k].op = "send_to_target" =>
                LET cmd == hist[handler_log[k].line].outcome
                IN  /\ cmd.kind = "SendMessage"
                    /\ handler_log[k].msg = cmd.msg
                    /\ handler_log[k].session_id = cmd.session_id
                    /\ \E n \in 1..Len(out) :
                          out[n] = Line("Sending", <<cmd.msg, cmd.session_id>>)

\* A status has invoked its two operations after a send was invoked.
C15_Witness ==
    /\ Len(hist) = 2
    /\ hist[1].outcome.kind = "SendMessage"
    /\ hist[2].outcome.kind = "Status"
    /\ Len(handler_log) = 3
    /\ handler_log[1].msg # <<>>
    /\ pc = "prompt"

\* An operation of the command last executed has returned a failure, and
\* the command has no operation left to call or to wait for.
FailedAndOver ==
    /\ \E k \in 1..Len(results) : results[k] = "Err"
    /\ in_flight = ""
    /\ todo = <<>>

\* C16: a failure returned by start, stop, block, poll or the send neither
\* ends nor aborts the shell.  Once the operation has failed, the command
\* is over with the operation invoked once; the result is on standard
\* output, the last line printed when the loop is back at its prompt;
\* nothing is printed on standard error for it; and if the shell has ended
\* since, it ended on a later line: on quit, on the end of input, on an
\* I/O failure of the read step or on the parse of that later line.
C16_OperationFailureGoesOn ==
    /\ pc = "aborted" => exit \in {"io", "panic"}
    /\ FailedAndOver =>
          LET l == handler_log[Len(handler_log)].line
              report == IF hist[l].outcome.kind = "SendMessage"
                        THEN Line("SEND_RESULT", results)
                        ELSE Line("RESULT", results)
          IN  /\ pc # "call"
              /\ OpsFor(l) = DispatchTable[hist[l].outcome.kind]
              /\ Len(OpsFor(l)) = 1
              /\ \E n \in 1..Len(out) : out[n] = report
              /\ (pc = "prompt" /\ Len(hist) = l) =>
                    \/ out[Len(out)] = report
                    \/ /\ hist[l].outcome.kind = "Block"
                       /\ out[Len(out) - 1] = report
              /\ \A n \in 1..Len(err) : err[n].args[1] # hist[l].outcome
              /\ exit = "quit" =>
                    Len(hist) > l /\ hist[Len(hist)].outcome.kind = "Quit"
              /\ exit = "panic" =>
                    Len(hist) > l /\ hist[Len(hist)].outcome.kind = "panic"
              /\ exit = "eof" => pos = Len(stdin) /\ last_command = <<>>

\* A start has failed and the next line has been read and executed.
C16_Witness ==
    /\ Len(hist) = 2
    /\ hist[1].outcome.kind = "Start"
    /\ hist[2].outcome.kind = "Poll"
    /\ out[3] = Line("RESULT", <<"Err">>)
    /\ Len(handler_log) = 2
    /\ pc = "prompt"

\* The parse errors.
ErrorKinds == {"Unknown", "InvalidArgumentCount", "InvalidArgument"}

\* C17: a parse error is local to its line and not fatal.  Standard error
\* holds one line for each line that failed to parse, in order, with the
\* error of that line; no operation is invoked for such a line and it is
\* not given to exec_command; after it the loop is at its prompt or at the
\* read of the next line, and ends only on the end of input or on an I/O
\* failure of the read step.
C17_ParseErrorGoesOn ==
    /\ [n \in 1..Len(err) |-> err[n].args[1]] =
          SelectSeq([i \in 1..Len(hist) |-> hist[i].outcome],
                    LAMBDA c : c.kind \in ErrorKinds)
    /\ \A n \in 1..Len(err) : err[n].text = "Error when running command"
    /\ \A i \in 1..Len(hist) :
          hist[i].outcome.kind \in ErrorKinds =>
             /\ OpsFor(i) = <<>>
             /\ \A n \in 1..Len(exec_log) : exec_log[n] # hist[i].outcome
    /\ (hist # <<>> /\ hist[Len(hist)].outcome.kind \in ErrorKinds) =>
          /\ \/ pc \in {"prompt", "read", "parse"}
             \/ pc = "aborted" /\ exit = "io"
             \/ pc = "done" /\ exit = "eof" /\ pos = Len(stdin)
          /\ pc \in {"read", "parse"} => out[Len(out)].text = "FIX> "

\* Two lines have failed to parse, each in its way, and the prompt is back.
C17_Witness ==
    /\ Len(err) = 2
    /\ err[1].args[1].kind = "InvalidArgumentCount"
    /\ err[2].args[1].kind = "InvalidArgument"
    /\ handler_log = <<>>
    /\ pc = "read"

\* C18: the shell aborts in its read step only: a run of the loop ends on
\* quit or on the end of input, or aborts on an I/O failure of the prompt
\* or of the read; nothing a line holds aborts the process.
C18_OnlyReadStepAborts ==
    /\ pc = "aborted" => exit = "io"
    /\ pc = "done" => exit \in {"quit", "eof"}

\* A send_to line with its three arguments and field specs that the parser
\* and the engine accept, and a sender or a target of which the engine
\* makes no session identifier.
SessionIdFails(line) ==
    LET text == Stripped(line)
    IN  /\ ~EngineAccepts(line)
        /\ IsSendTo(text)
        /\ WordCount(text) >= 4
        /\ LET fields == FieldTexts(text)
           IN  \A i \in 1..Len(fields) :
                  /\ WellFormed(fields[i])
                  /\ TagFits(fields[i])
                  /\ EngineAccepts(ValueText(fields[i]))
        /\ ~(EngineAccepts(Word(text, 3)) /\ EngineAccepts(Word(text, 4)))

C20_BufferClearedBeforeRead ==
    /\ pc = "read" => last_command = <<>>
    /\ pc = "parse" =>
          IF last_command = <<>> THEN Len(hist) = pos
          ELSE pos > 0 /\ last_command = stdin[pos] /\ Len(hist) = pos - 1
    /\ \A i \in 1..Len(hist) :
          /\ hist[i].text = hist[i].line
          /\ hist[i].text = stdin[i]
    /\ pc \in {"exec", "call"} => last_command = stdin[pos]

\* A line has been parsed as it was read after a line that failed to parse
\* and a line whose operation failed.
C20_Witness ==
    /\ Len(hist) = 3
    /\ hist[1].outcome.kind = "Unknown"
    /\ hist[2].outcome.kind = "Start"
    /\ \E n \in 1..Len(out) : out[n] = Line("RESULT", <<"Err">>)
    /\ hist[3].text = <<"s", "t", "a", "t", "u", "s">>
    /\ hist[3].outcome.kind = "Status"

\* Where standard output holds a prompt.
PromptAt == {n \in 1..Len(out) : out[n].text = "FIX> "}

\* What the command of a line prints, given what its operations returned.
ExpectedOutput(cmd, res) ==
    CASE cmd.kind = "Help" -> <<Line("help", <<>>)>>
      [] cmd.kind \in {"Start", "Stop", "Poll"} -> <<Line("RESULT", res)>>
      [] cmd.kind = "Block" ->
            <<Line("RESULT", res), Line("(Blocked until message received)", <<>>)>>
      [] cmd.kind = "Status" -> <<Line("Connection handler status", res)>>
      [] cmd.kind = "SendMessage" ->
            <<Line("Sending", <<cmd.msg, cmd.session_id>>),
              Line("SEND_RESULT", res)>>
      [] OTHER -> <<>>

\* C21: every read has its own prompt, written and flushed as the last
\* thing on standard output before the read starts; the prompts flushed are
\* as many as the reads attempted, one more while a read is about to start;
\* and when the loop comes to print the next prompt, all the output of the
\* command of the line just parsed is on standard output, after the prompt
\* of that line.
C21_PromptBeforeEveryRead ==
    /\ \A k \in 1..Len(reads) :
          /\ reads[k].at \in PromptAt
          /\ reads[k].visible = reads[k].at
          /\ k > 1 => reads[k - 1].at < reads[k].at
    /\ Cardinality({n \in PromptAt : n <= flushed}) =
          Len(reads) + (IF pc = "read" THEN 1 ELSE 0)
    /\ \A n \in PromptAt :
          \/ \E k \in 1..Len(reads) : reads[k].at = n
          \/ n = Len(out) /\ (pc = "read" \/ (pc = "aborted" /\ exit = "io"))
    /\ (pc = "prompt" /\ hist # <<>>) =>
          SubSeq(out, reads[Len(reads)].at + 1, Len(out)) =
             ExpectedOutput(hist[Len(hist)].outcome,
                            IF hist[Len(hist)].outcome.kind \in ActingKinds
                            THEN results ELSE <<>>)

\* Three reads have been attempted, the second after the two lines of a
\* block that had returned.
C21_Witness ==
    /\ Len(reads) = 3
    /\ hist[1].outcome.kind = "Block"
    /\ reads[2].at = reads[1].at + 3
    /\ Cardinality(PromptAt) = 3

\* C22: one operation in flight at most.  An operation is in flight only
\* inside exec_command; the operations invoked for the line in execution
\* are those that have returned and the one in flight, so that an
\* operation is invoked only after the one before it has returned; and
\* while an operation is in flight, a block too, no prompt is printed and
\* no read starts.
C22_OneInFlight ==
    /\ in_flight # "" => pc = "call"
    /\ pc = "call" =>
          /\ Len(OpsFor(pos)) = Len(results) + (IF in_flight # "" THEN 1 ELSE 0)
          /\ in_flight # "" => handler_log[Len(handler_log)].op = in_flight
          /\ in_flight = "" => todo # <<>>
    /\ pc \in {"prompt", "read", "parse", "exec"} =>
          /\ in_flight = ""
          /\ todo = <<>>

\* The second operation of a status is in flight after the first returned.
C22_Witness ==
    /\ pc = "call"
    /\ in_flight = "is_stopped"
    /\ Len(results) = 1
    /\ Len(handler_log) = 2

\* C24: the loop of the shell ends only on a quit line or on the end of
\* input, and it does end: when every operation returns and no prompt or
\* read fails, it is left in the end, every stream being finite.
C24_LoopTerminates ==
    /\ [](pc = "done" => exit \in {"quit", "eof"})
    /\ <>(pc = "done" \/ exit = "io")

----------------------------------------------------------------------------
(* The program of the shell: properties.                                   *)

\* The program is started without its two arguments, or with a mode that
\* is neither of the two.
BadUsage ==
    \/ Len(argv) < 2
    \/ argv[1] \notin {"acceptor", "initiator"}

\* Neither a connection handler started nor the shell entered.
NothingStarted ==
    /\ handler_log = <<>>
    /\ lifecycle = <<>>
    /\ in_flight = ""
    /\ reads = <<>>
    /\ hist = <<>>
    /\ \A n \in 1..Len(out) : out[n].text \notin {"welcome", "FIX> "}

\* C23: started without a mode or a configuration file, or with a mode
\* other than acceptor and initiator, the program prints the usage on
\* standard error and exits with code 1; it starts no connection handler
\* and does not enter the shell.
C23_BadUsageExits ==
    BadUsage =>
       /\ NothingStarted
       /\ pc \in {"main", "create", "mode", "exited"}
       /\ pc = "exited" =>
             /\ err = <<Line("Bad program usage", <<>>)>>
             /\ exit_code = 1

\* C23 amended: started without a mode or a configuration file, the
\* program prints the usage on standard error; started with a mode other
\* than acceptor and initiator, it first creates its resources and prints
\* their error if that fails, "Invalid connection mode" if not; in each
\* case it prints one line on standard error and nothing else, exits with
\* code 1, starts no connection handler and does not enter the shell.
C23_BadUsageOrModeExits ==
    BadUsage =>
       /\ NothingStarted
       /\ pc \in {"main", "create", "mode", "exited"}
       /\ pc = "exited" =>
             /\ exit_code = 1
             /\ Len(err) = 1
             /\ IF Len(argv) < 2
                THEN err[1] = Line("Bad program usage", <<>>) /\ out = <<>>
                ELSE /\ err[1] \in {Line("Invalid connection mode", <<>>),
                                    Line("Error", <<"resources">>)}
                     /\ out = <<Line(">> Creating resources", <<>>)>>

\* The program has exited on a mode it does not know.
C23_Witness ==
    /\ pc = "exited"
    /\ argv = <<"server", "server.ini">>
    /\ err = <<Line("Invalid connection mode", <<>>)>>
    /\ exit_code = 1

\* The places of the invocations of that operation by server_loop, and by
\* the commands of the user.
LifecycleCalls(op) ==
    {k \in 1..Len(handler_log) :
        handler_log[k].op = op /\ handler_log[k].line = 0}

UserCalls(op) ==
    {k \in 1..Len(handler_log) :
        handler_log[k].op = op /\ handler_log[k].line > 0}

\* The shell has been entered.
ShellEntered ==
    \/ pc \in {"prompt", "read", "parse", "exec", "call", "done", "aborted",
               "stopping"}
    \/ reads # <<>>
    \/ \E n \in 1..Len(out) : out[n].text = "welcome"

\* C25: the life of the connection handler brackets the shell.  The shell
\* is entered only after server_loop has invoked start, once and as the
\* first operation, and start has succeeded; after a start that failed the
\* shell is not entered, stop is not invoked and the error is that of the
\* program.  server_loop invokes stop only after the loop of the shell has
\* ended on quit or on the end of input, then once and as the last
\* operation, beside the stops and starts of the user; a failure of that
\* stop is the error of the program, exit code 1, its success exit code 0.
C25_LifecycleBracketsShell ==
    /\ Cardinality(LifecycleCalls("start")) <= 1
    /\ Cardinality(LifecycleCalls("stop")) <= 1
    /\ ShellEntered =>
          /\ handler_log[1] = LifecycleCall("start")
          /\ lifecycle[1] = [op |-> "start", result |-> "Ok"]
    /\ (lifecycle # <<>> /\ lifecycle[1].result = "Err") =>
          /\ ~ShellEntered
          /\ handler_log = <<LifecycleCall("start")>>
          /\ pc = "exited"
          /\ exit_code = 1
          /\ err = <<ReturnErr("start")>>
    /\ LifecycleCalls("stop") # {} =>
          /\ exit \in {"quit", "eof"}
          /\ handler_log[Len(handler_log)] = LifecycleCall("stop")
          /\ pc \in {"stopping", "exited"}
    /\ (pc = "exited" /\ exit \in {"quit", "eof"}) =>
          /\ Cardinality(LifecycleCalls("stop")) = 1
          /\ Cardinality(UserCalls("stop")) =
                Cardinality({i \in 1..Len(hist) : hist[i].outcome.kind = "Stop"})
          /\ Cardinality(UserCalls("start")) =
                Cardinality({i \in 1..Len(hist) : hist[i].outcome.kind = "Start"})
          /\ Len(lifecycle) = 2
          /\ lifecycle[2].op = "stop"
          /\ IF lifecycle[2].result = "Ok"
             THEN exit_code = 0
             ELSE exit_code = 1 /\ err[Len(err)] = ReturnErr("stop")

\* The user has typed stop and quit: stop has been invoked twice, and the
\* failure of the second one is the error of the program.
C25_Witness ==
    /\ pc = "exited"
    /\ exit = "quit"
    /\ Len(hist) = 2
    /\ hist[1].outcome.kind = "Stop"
    /\ [k \in 1..Len(handler_log) |-> handler_log[k].op] =
          <<"start", "stop", "stop">>
    /\ lifecycle[2].result = "Err"
    /\ exit_code = 1

----------------------------------------------------------------------------
(* The logging application: properties.                                    *)

\* The value of a 32-bit counter that stood at v and has been incremented n
\* times.
CountFrom(v, n) ==
    LET low == v.lo + n
    IN  [hi |-> (v.hi + (low \div 65536)) % 65536, lo |-> low % 65536]

\* a < b, as 32-bit values.
Below(a, b) == a.hi < b.hi \/ (a.hi = b.hi /\ a.lo < b.lo)

\* The callbacks that have made their increment, finished or not.
Incremented ==
    {<<"out", i>> : i \in {j \in 1..Len(app_out) :
                              app_out[j].callback \in {"to_admin", "to_app",
                                                       "from_admin", "from_app"}}}
    \cup {<<"thread", t>> : t \in {u \in DOMAIN th :
                              /\ th[u].callback \in {"to_admin", "to_app",
                                                     "from_admin", "from_app"}
                              /\ th[u].at \in {"load", "write"}}}

\* C28: the counter loses no update.  In every state of every interleaving
\* of the callbacks, message_index is the number of increments completed by
\* on_msg_to_admin, on_msg_to_app, on_msg_from_admin and on_msg_from_app,
\* modulo 2^32; a step changes it only as the increment of one of those
\* four, never as a step of on_create, on_logon or on_logout, and the new
\* value is above the old one unless the counter wraps from 2^32 - 1 to 0.
C28_NoLostUpdates ==
    /\ [](pc = "app" => message_index = CountFrom(base, Cardinality(Incremented)))
    /\ [][(pc = "app" /\ message_index' # message_index) =>
            /\ \E t \in DOMAIN th :
                  /\ th[t].callback \in {"to_admin", "to_app", "from_admin", "from_app"}
                  /\ th[t].at = "inc"
                  /\ th'[t].at = "load"
                  /\ \A u \in DOMAIN th \ {t} : th'[u] = th[u]
            /\ \/ Below(message_index, message_index')
               \/ /\ message_index = [hi |-> 65535, lo |-> 65535]
                  /\ message_index' = [hi |-> 0, lo |-> 0]]_vars

\* Two threads have made their increments while both are inside a message
\* callback, the second one wrapping the counter around.
C28_Witness ==
    /\ pc = "app"
    /\ base = [hi |-> 65535, lo |-> 65534]
    /\ message_index = [hi |-> 0, lo |-> 0]
    /\ \A t \in {1, 2} : th[t].at = "load" /\ th[t].callback \in {"to_app", "from_app"}

\* The lines of app_out written by message callbacks.
MessageLines ==
    {i \in 1..Len(app_out) :
        app_out[i].callback \in {"to_admin", "to_app", "from_admin", "from_app"}}

\* C29: the counter numbers the messages.  Every line a message callback
\* (to_admin, to_app, from_admin, from_app) prints carries the value the
\* callback's own increment gave the counter, and no two such lines carry
\* the same id, whatever the interleaving of the callbacks on the threads.
C29_OwnDistinctIds ==
    pc = "app" =>
        /\ \A i \in MessageLines : app_out[i].id = app_out[i].own
        /\ \A i, j \in MessageLines : i # j => app_out[i].id # app_out[j].id

\* Two message callbacks on two threads have printed the same id.
C29_SameIdTwice ==
    /\ pc = "app"
    /\ \E i, j \in MessageLines :
          /\ i # j
          /\ app_out[i].thread # app_out[j].thread
          /\ app_out[i].id = app_out[j].id
          /\ app_out[i].own # app_out[j].own

----------------------------------------------------------------------------
(* The acceptor demos: properties.                                         *)

\* start has returned Ok.
AcceptorStarted ==
    \E k \in 1..Len(lifecycle) : lifecycle[k] = [op |-> "start", result |-> "Ok"]

\* The invocations of stop.
StopCalls == {k \in 1..Len(handler_log) : handler_log[k].op = "stop"}

\* The byte read last is a 'q', and the first one of the input.
QuitRead ==
    /\ pos >= 1
    /\ stdin[pos] = "q"
    /\ \A i \in 1..(pos - 1) : stdin[i] # "q"

\* main is in its loop, between two reads or between a read and its test.
InWaitLoop == pc \in {"demo_read", "demo_check"}

\* C30: in demo_config and fix_getting_started, once start() has succeeded
\* the wait loop is left only after a byte 'q' has been read from stdin:
\* until then every byte read is dropped, main stays in the loop and stop()
\* has not been invoked; stop() is invoked only after that 'q', and exactly
\* once by the time main has returned.  A failed read changes nothing, so
\* when the input has ended with no 'q' in it main is still in the loop and
\* stop() has not been invoked, however many reads have failed.
C30_QuitOnlyOnQ ==
    demo \in {"demo_config", "fix_getting_started"} =>
        /\ \A i \in 1..(pos - 1) : stdin[i] # "q"
        /\ ~AcceptorStarted => (pos = 0 /\ StopCalls = {} /\ ~InWaitLoop)
        /\ (AcceptorStarted /\ ~QuitRead) => (InWaitLoop /\ StopCalls = {})
        /\ InWaitLoop => (AcceptorStarted /\ StopCalls = {} /\ in_flight = "")
        /\ StopCalls # {} => (AcceptorStarted /\ QuitRead)
        /\ Cardinality(StopCalls) <= 1
        /\ (AcceptorStarted /\ pc \in {"demo_stopping", "exited"})
              => Cardinality(StopCalls) = 1
        /\ (/\ AcceptorStarted
            /\ pos = Len(stdin)
            /\ \A i \in 1..Len(stdin) : stdin[i] # "q")
              => (InWaitLoop /\ StopCalls = {} /\ exit_code = -1)

\* The input has ended after a byte that is no 'q', two reads have failed
\* since and main is about to read again.
C30_Witness ==
    /\ demo \in {"demo_config", "fix_getting_started"}
    /\ AcceptorStarted
    /\ stdin = <<"x">>
    /\ pos = 1
    /\ failed_reads = 2
    /\ pc = "demo_read"
    /\ StopCalls = {}

\* A 'q' after another byte: main has stopped the acceptor and returned.
C30_WitnessQuit ==
    /\ demo = "demo_config"
    /\ stdin = <<"Q", "q">>
    /\ pos = 2
    /\ pc = "exited"
    /\ exit_code = 0
    /\ Cardinality(StopCalls) = 1

====
